---- MODULE Spec2Model ----
(***************************************************************************)
(* Model of the region-segmentation OCR pipeline of                        *)
(* backend/services/advanced_ocr_service.py (AdvancedOCRService).          *)
(*                                                                         *)
(* Several specifications share the module:                                *)
(*   Spec      one call of process_image / process_image_url /             *)
(*             process_image_path, stepped at the calls to the external    *)
(*             collaborators (network, file system, decoder, contour and   *)
(*             blob detectors, recognizer) and at the suspension points    *)
(*             of the coroutine process_image_url;                         *)
(*   SpecMerge _merge_overlapping_boxes applied to bounded box lists;      *)
(*   SpecSort  _sort_bounding_boxes applied to bounded box lists;          *)
(*   SpecFields      extract_compliance_fields applied to token lists;     *)
(*   SpecMetrics     calculate_confidence_metrics applied to regions;      *)
(*   SpecOcr         perform_region_wise_ocr and the result built from it; *)
(*   SpecResize      _resize_image applied once and twice;                 *)
(*   SpecConcurrent  interleaved process_image calls on one instance;      *)
(*   SpecScore       the score and level process_image reports;            *)
(*   SpecDetect      the contour strategy of detect_text_regions;          *)
(*   SpecMrp         the MRP pattern and the mrp field;                    *)
(*   SpecSingleton   concurrent first calls of get_advanced_ocr_service;   *)
(*   SpecBulk        CategoryAuditService.bulk_audit_urls and its pool;    *)
(*   SpecTask        the background category audit of main.py.             *)
(* Pixel arithmetic is integer arithmetic and the float comparisons of the *)
(* contour filters are cross-multiplied.  The rescaled height, the         *)
(* confidences, their mean and the score are computed in the float         *)
(* arithmetic of the source.                                               *)
(***************************************************************************)
EXTENDS Integers, Sequences, FiniteSets, TLC

VARIABLES
    pc,            \* position of the call: idle, fetch, read, decode, detect, mser, ocr, returned, raised
    entry,         \* entry point used: "bytes", "url", "path" ("none" before the call)
    category,      \* the category argument ("none" models None)
    acquired,      \* outcome of the acquisition step of the url/path wrappers
    decodeCalls,   \* number of times process_image was entered during the call
    img,           \* <<width, height>> of the decoded image (<<0,0>> before decoding)
    decoded,       \* what cv2.imdecode did: "pending", "none", "raised", "image"
    primary,       \* boxes appended by the primary (contour) strategy
    usedMser,      \* whether _detect_text_regions_mser ran
    detected,      \* list returned by detect_text_regions
    detectedRows,  \* the row groups _sort_bounding_boxes built for that list
    boxes,         \* bounding_boxes of process_image (after the whole-image substitution)
    idx,           \* loop index of perform_region_wise_ocr
    regions,       \* text_regions collected so far
    ocrLog,        \* per handled region: what happened to it
    steps,         \* pipeline steps process_image ran: "detect", "ocr", "extract", "metrics"
    result,        \* the OCRProcessingResult returned (NoResult before)
    fpc,           \* position of the pure-function specifications
    boxesIn,       \* argument of the pure function
    boxesOut,      \* its return value
    rowsOut,       \* the row groups built by _sort_bounding_boxes
    fnIn,          \* argument of the other functions applied on their own
    fnOut,         \* what they return
    shared,        \* state of the service instance and of the recognizer configuration
    calls,         \* the concurrent process_image calls on one instance
    bpc,           \* position of bulk_audit_urls: off, start, collecting, returned
    futures,       \* future_to_url: per submitted task its url, fate, state and whether it was collected
    progress,      \* the BulkAuditProgress of the call
    singleton,     \* the module global _advanced_ocr_service (0 models None)
    built,         \* number of AdvancedOCRService instances constructed so far
    threads,       \* the threads calling get_advanced_ocr_service
    tpc,           \* position of run_bulk_audit: off, auditing, saving, finished
    bulk_audit_tasks,  \* the entry of the task in bulk_audit_tasks
    unsaved,       \* results run_bulk_audit has still to save
    observed       \* the statuses the polls of the task returned, oldest first

vars == <<pc, entry, category, acquired, decodeCalls, img, decoded, primary,
          usedMser, detected, detectedRows, boxes, idx, regions, ocrLog, steps, result,
          fpc, boxesIn, boxesOut, rowsOut, fnIn, fnOut, shared, calls,
          bpc, futures, progress, singleton, built, threads,
          tpc, bulk_audit_tasks, unsaved, observed>>

pipeVars == <<pc, entry, category, acquired, decodeCalls, img, decoded, primary,
              usedMser, detected, detectedRows, boxes, idx, regions, ocrLog, steps, result>>

bulkVars == <<bpc, futures, progress>>

singletonVars == <<singleton, built, threads>>

taskVars == <<tpc, bulk_audit_tasks, unsaved, observed>>

svcVars == <<bulkVars, singletonVars, taskVars>>

pureVars == <<fpc, boxesIn, boxesOut, rowsOut, fnIn, fnOut, shared, calls>>

fnVars == <<fpc, boxesIn, boxesOut, rowsOut, fnIn, fnOut, shared, calls, svcVars>>

\* no call of the surrounding services is under way
BulkIdle ==
    /\ bpc = "off"
    /\ futures = <<>>
    /\ progress = <<>>

\* no thread has called get_advanced_ocr_service
SingletonIdle ==
    /\ singleton = 0
    /\ built = 0
    /\ threads = <<>>

\* no category audit was started
TaskIdle ==
    /\ tpc = "off"
    /\ bulk_audit_tasks = <<>>
    /\ unsaved = 0
    /\ observed = <<>>

SvcIdle == BulkIdle /\ SingletonIdle /\ TaskIdle

(***************************************************************************)
(* Program constants                                                       *)
(***************************************************************************)
MIN_CONFIDENCE_THRESHOLD == 60
LOW_CONFIDENCE_THRESHOLD == 65
TARGET_WIDTH == 1200
MIN_CONTOUR_AREA == 100
\* MAX_CONTOUR_AREA_RATIO = 0.8, MIN_ASPECT_RATIO = 0.1, MAX_ASPECT_RATIO = 15.0
\* are kept as the integer fractions 4/5, 1/10 and 15/1.
MaxAreaNum == 4
MaxAreaDen == 5
MinAspectDen == 10
MaxAspectNum == 15
Padding == 5

(***************************************************************************)
(* Bounds of the model                                                     *)
(***************************************************************************)
MaxMergeBoxes == 3 \* length of the box lists given to _merge_overlapping_boxes
MaxSortBoxes == 3  \* length of the box lists given to _sort_bounding_boxes
MaxX == 1          \* largest x of an input box
MaxY == 1          \* largest y of an input box
MaxSide == 3       \* largest width / height of an input box

(***************************************************************************)
(* Small helpers                                                           *)
(***************************************************************************)
Min(a, b) == IF a < b THEN a ELSE b
Max(a, b) == IF a > b THEN a ELSE b
Abs(a) == IF a < 0 THEN 0 - a ELSE a

RECURSIVE SumHeights(_)
SumHeights(s) == IF s = <<>> THEN 0 ELSE Head(s).height + SumHeights(Tail(s))

\* only the first box of every row
RECURSIVE FlattenAnchors(_)
FlattenAnchors(rows) ==
    IF rows = <<>> THEN <<>> ELSE <<Head(rows)[1]>> \o FlattenAnchors(Tail(rows))

RECURSIVE Flatten(_)
Flatten(rows) == IF rows = <<>> THEN <<>> ELSE Head(rows) \o Flatten(Tail(rows))

\* BoundingBox dataclass: x, y, width, height (area and the centres are derived).
BoundingBox(x, y, w, h) == [x |-> x, y |-> y, width |-> w, height |-> h]

\* BoundingBox.center_y: y + height // 2 (floor division).
CenterY(b) == b.y + (b.height \div 2)

(***************************************************************************)
(* _merge_overlapping_boxes                                                *)
(***************************************************************************)
Rect(b) == <<b.x, b.y, b.x + b.width, b.y + b.height>>

\* intersection / min_area > overlap_thresh (0.5) for two rectangles <<x1,y1,x2,y2>>
Overlaps(c, o) ==
    LET x1 == Max(c[1], o[1])
        y1 == Max(c[2], o[2])
        x2 == Min(c[3], o[3])
        y2 == Min(c[4], o[4])
        area1 == (c[3] - c[1]) * (c[4] - c[2])
        area2 == (o[3] - o[1]) * (o[4] - o[2])
    IN  /\ x1 < x2
        /\ y1 < y2
        /\ 2 * ((x2 - x1) * (y2 - y1)) > Min(area1, area2)

\* a merge that keeps the current rectangle and forgets the other
KeepCurrentRect(c, o) == c

UnionRect(c, o) == <<Min(c[1], o[1]), Min(c[2], o[2]), Max(c[3], o[3]), Max(c[4], o[4])>>

\* The inner loop over j for a fixed i: returns <<current_rect, used>>.
RECURSIVE MergeInner(_, _, _, _, _)
MergeInner(bs, i, j, cur, used) ==
    IF j > Len(bs) THEN <<cur, used>>
    ELSE IF j <= i \/ j \in used THEN MergeInner(bs, i, j + 1, cur, used)
    ELSE IF Overlaps(cur, Rect(bs[j]))
         THEN MergeInner(bs, i, j + 1, UnionRect(cur, Rect(bs[j])), used \cup {j})
         ELSE MergeInner(bs, i, j + 1, cur, used)

\* The outer loop over i.
RECURSIVE MergeOuter(_, _, _, _)
MergeOuter(bs, i, merged, used) ==
    IF i > Len(bs) THEN merged
    ELSE IF i \in used THEN MergeOuter(bs, i + 1, merged, used)
    ELSE LET r == MergeInner(bs, i, 1, Rect(bs[i]), used)
             c == r[1]
         IN  MergeOuter(bs, i + 1,
                        Append(merged, BoundingBox(c[1], c[2], c[3] - c[1], c[4] - c[2])),
                        r[2] \cup {i})

MergeOverlappingBoxes(bs) == IF bs = <<>> THEN bs ELSE MergeOuter(bs, 1, <<>>, {})

(***************************************************************************)
(* _sort_bounding_boxes                                                    *)
(***************************************************************************)
\* sorted(..., key=...) is stable: b goes after every element whose key is <= its own.
RECURSIVE InsertByY(_, _)
InsertByY(s, b) ==
    IF s = <<>> THEN <<b>>
    ELSE IF Head(s).y <= b.y THEN <<Head(s)>> \o InsertByY(Tail(s), b)
    ELSE <<b>> \o s

\* the grouping loop fed the boxes in input order
SortByYSkipped(s) == s

RECURSIVE SortByY(_)
SortByY(s) == IF s = <<>> THEN <<>> ELSE InsertByY(SortByY(SubSeq(s, 1, Len(s) - 1)), s[Len(s)])

RECURSIVE InsertByX(_, _)
InsertByX(s, b) ==
    IF s = <<>> THEN <<b>>
    ELSE IF Head(s).x <= b.x THEN <<Head(s)>> \o InsertByX(Tail(s), b)
    ELSE <<b>> \o s

RECURSIVE SortByX(_)
SortByX(s) == IF s = <<>> THEN <<>> ELSE InsertByX(SortByX(SubSeq(s, 1, Len(s) - 1)), s[Len(s)])

\* abs(box.center_y - current_y) < row_threshold, with
\* row_threshold = (sum of heights / n) * 0.5, cross-multiplied by 2n.
WithinRow(b, currentY, sumH, n) == 2 * n * Abs(CenterY(b) - currentY) < sumH

\* The grouping loop: rows closed so far, the current row, its anchor centre.
RECURSIVE GroupLoop(_, _, _, _, _, _)
GroupLoop(s, rows, cur, currentY, sumH, n) ==
    IF s = <<>> THEN (IF cur # <<>> THEN Append(rows, cur) ELSE rows)
    ELSE LET b == Head(s)
         IN  IF WithinRow(b, currentY, sumH, n) /\ cur # <<>>
             THEN GroupLoop(Tail(s), rows, Append(cur, b), currentY, sumH, n)
             ELSE GroupLoop(Tail(s),
                            IF cur # <<>> THEN Append(rows, cur) ELSE rows,
                            <<b>>, CenterY(b), sumH, n)

\* rows as built by the loop (each row in insertion order: its anchor first)
GroupRows(bs) ==
    IF bs = <<>> THEN <<>>
    ELSE LET sorted == SortByY(bs)
         IN  GroupLoop(sorted, <<>>, <<>>, sorted[1].y, SumHeights(bs), Len(bs))

\* the rows after row.sort(key=x)
SortedRows(bs) == LET rows == GroupRows(bs) IN [k \in 1..Len(rows) |-> SortByX(rows[k])]

SortBoundingBoxes(bs) == IF bs = <<>> THEN bs ELSE Flatten(SortedRows(bs))

(***************************************************************************)
(* Inputs of the pipeline model                                            *)
(***************************************************************************)
MaxContours == 2   \* contours / blobs reported for one image
MaxWords == 2      \* words the recognizer reports for one region
MaxGridX == 1      \* rectangle positions are x = 0, GridStep, ..., MaxGridX * GridStep
MaxGridY == 1      \* and y = 0, GridStep, ..., MaxGridY * GridStep
GridStep == 700

\* <<width, height>> of the images the decoder may deliver
ImageSizes == {<<600, 400>>, <<1200, 800>>, <<3000, 1000>>, <<3000, 2>>}

\* <<w, h>> of the rectangles cv2.boundingRect may deliver
RectShapes == {<<200, 40>>, <<5, 5>>, <<400, 20>>, <<2, 60>>, <<600, 400>>}

\* rectangles <<x, y, w, h>> lying inside a gw x gh pixel grid
RectsIn(gw, gh) ==
    {r \in {<<gx * GridStep, gy * GridStep, sh[1], sh[2]>> :
                gx \in 0..MaxGridX, gy \in 0..MaxGridY, sh \in RectShapes} :
        r[1] + r[3] <= gw /\ r[2] + r[4] <= gh}

RECURSIVE SeqsUpTo(_, _)
SeqsUpTo(S, n) ==
    IF n = 0 THEN {<<>>}
    ELSE LET shorter == SeqsUpTo(S, n - 1)
         IN  shorter \cup {Append(q, e) : q \in {t \in shorter : Len(t) = n - 1}, e \in S}

Categories == {"none", "food", "electronics", "cosmetics", "generic"}

\* words the recognizer may report: text (already stripped) and confidence
Words == {[text |-> "", conf |-> 100], [text |-> "fresh", conf |-> 30],
          [text |-> "fresh", conf |-> 60], [text |-> "12/2025", conf |-> 100]}

\* what pytesseract.image_to_data does for one region: raise, or report words
RecognizerOutcomes ==
    {[raised |-> TRUE, words |-> <<>>]} \cup
    {[raised |-> FALSE, words |-> ws] : ws \in SeqsUpTo(Words, MaxWords)}

(***************************************************************************)
(* Exceptions                                                              *)
(***************************************************************************)
\* the exceptions the modelled steps raise that are subclasses of Exception;
\* asyncio.CancelledError is a BaseException and is not one of them
ExceptionKinds == {"ZeroDivisionError", "cv2.error", "ValidationError", "ClientError",
                   "TimeoutError", "FileNotFoundError", "OSError", "ValueError",
                   "ImportError"}

\* `except Exception` of process_image, process_image_url and process_image_path
CaughtByExceptException(kind) == kind \in ExceptionKinds

(***************************************************************************)
(* Python float arithmetic (IEEE 754 binary64, round to nearest, ties to   *)
(* even) on the non-negative values the service computes.  A float is      *)
(* [m, e] with 2^52 <= m < 2^53 and value m * 2^(e - 52); m is a list of   *)
(* base-2^15 digits, least significant first; 0.0 is [m |-> <<>>, e |-> 0].*)
(***************************************************************************)
LimbBits == 15
LimbBase == 2^LimbBits
MantissaBits == 53

Zero == [m |-> <<>>, e |-> 0]

\* number of binary digits of n (0 for 0)
BitLength(n) == CHOOSE k \in 0..30 : n < 2^k /\ (k = 0 \/ n >= 2^(k - 1))

\* a digit list without leading zero digits
Trim(a) ==
    SubSeq(a, 1, CHOOSE k \in 0..Len(a) :
                     (k = 0 \/ a[k] # 0) /\ \A j \in (k + 1)..Len(a) : a[j] = 0)

BigBits(a) == IF a = <<>> THEN 0 ELSE LimbBits * (Len(a) - 1) + BitLength(a[Len(a)])

BigOfInt(n) == Trim(<<n % LimbBase, (n \div LimbBase) % LimbBase, n \div (LimbBase * LimbBase)>>)

IntOfBig(a) ==
    (IF Len(a) >= 1 THEN a[1] ELSE 0) + (IF Len(a) >= 2 THEN a[2] * LimbBase ELSE 0)
        + (IF Len(a) >= 3 THEN a[3] * LimbBase * LimbBase ELSE 0)

Digit(a, i) == IF i <= Len(a) THEN a[i] ELSE 0

\* the low i digits of a * k and the carry out of them
RECURSIVE MulLow(_, _, _)
MulLow(a, k, i) ==
    IF i = 0 THEN [s |-> <<>>, c |-> 0]
    ELSE LET lo == MulLow(a, k, i - 1)
             t == a[i] * k + lo.c
         IN  [s |-> Append(lo.s, t % LimbBase), c |-> t \div LimbBase]

\* the digits r.s with the carry r.c above them
WithCarry(r) == Trim(r.s \o <<r.c % LimbBase, r.c \div LimbBase>>)

\* a * k for 0 <= k < 2^16
BigMul(a, k) == WithCarry(MulLow(a, k, Len(a)))

\* the low i digits of a + b and the carry out of them
RECURSIVE AddLow(_, _, _)
AddLow(a, b, i) ==
    IF i = 0 THEN [s |-> <<>>, c |-> 0]
    ELSE LET lo == AddLow(a, b, i - 1)
             t == Digit(a, i) + Digit(b, i) + lo.c
         IN  [s |-> Append(lo.s, t % LimbBase), c |-> t \div LimbBase]

BigAdd(a, b) == WithCarry(AddLow(a, b, IF Len(a) > Len(b) THEN Len(a) ELSE Len(b)))

\* digits i.. of a divided by d: quotient digits and remainder, 0 < d < 2^16
RECURSIVE DivHigh(_, _, _)
DivHigh(a, d, i) ==
    IF i > Len(a) THEN [q |-> <<>>, r |-> 0]
    ELSE LET hi == DivHigh(a, d, i + 1)
             cur == hi.r * LimbBase + a[i]
         IN  [q |-> <<cur \div d>> \o hi.q, r |-> cur % d]

\* a \div d and whether a remainder was left
Quotient(r, lost) == [q |-> Trim(r.q), inexact |-> r.r # 0 \/ lost]
BigDiv(a, d) == Quotient(DivHigh(a, d, 1), FALSE)

\* a * 2^s
ShiftLeft(a, s) ==
    [k \in 1..(s \div LimbBits) |-> 0] \o BigMul(a, 2^(s % LimbBits))

\* a \div 2^s and whether a one was shifted out
DropDigits(a, drop, s) ==
    Quotient(DivHigh(SubSeq(a, drop + 1, Len(a)), 2^s, 1), \E i \in 1..drop : a[i] # 0)
ShiftRight(a, s) ==
    DropDigits(a, IF s \div LimbBits < Len(a) THEN s \div LimbBits ELSE Len(a), s % LimbBits)

BigLess(a, b) ==
    IF Len(a) # Len(b) THEN Len(a) < Len(b)
    ELSE \E i \in DOMAIN a : a[i] < b[i] /\ \A j \in (i + 1)..Len(a) : a[j] = b[j]

IsOdd(a) == a # <<>> /\ a[1] % 2 = 1

\* q to the nearest integer after dropping s > 0 binary digits, ties to
\* even; sticky tells that q itself was cut off from a larger value
RoundKept(kept, half, more) ==
    IF half /\ (more \/ IsOdd(kept)) THEN BigAdd(kept, <<1>>) ELSE kept
RoundGuard(guard, sticky) ==
    RoundKept(ShiftRight(guard.q, 1).q, IsOdd(guard.q), guard.inexact \/ sticky)
RoundShift(q, sticky, s) == RoundGuard(ShiftRight(q, s - 1), sticky)

\* the float nearest to q * 2^u
Normalised(m, e) ==
    IF BigBits(m) > MantissaBits THEN [m |-> ShiftRight(m, 1).q, e |-> e + 1]
    ELSE [m |-> m, e |-> e]
RoundBits(q, sticky, u, n) ==
    IF n = 0 THEN Zero
    ELSE IF n <= MantissaBits THEN [m |-> ShiftLeft(q, MantissaBits - n), e |-> u + n - 1]
    ELSE Normalised(RoundShift(q, sticky, n - MantissaBits), u + n - 1)
RoundToFloat(q, sticky, u) == RoundBits(q, sticky, u, BigBits(q))

\* a / b of two ints, 0 <= a, 0 < b < 2^16
RoundQuotient(r, u) == RoundToFloat(r.q, r.inexact, u)

\* the float nearest to q * 2^u / d, from the quotient of q * 2^s
ScaledDivide(q, d, u, s) == RoundQuotient(BigDiv(ShiftLeft(q, s), d), u - s)

TrueDivide(a, b) ==
    ScaledDivide(BigOfInt(a), b, 0, MantissaBits + 3 + BitLength(b) - BitLength(a))

\* x / d for a float x and an int 0 < d < 2^16
FloatDivide(x, d) == ScaledDivide(x.m, d, x.e - (MantissaBits - 1), BitLength(d) + 3)

\* x * k for a float x and an int 0 <= k < 2^16
FloatMultiply(x, k) == RoundToFloat(BigMul(x.m, k), FALSE, x.e - (MantissaBits - 1))

\* hi + lo for hi.e >= lo.e
AddAligned(hi, lo) ==
    IF hi.e - lo.e > MantissaBits + 2 THEN hi
    ELSE RoundToFloat(BigAdd(ShiftLeft(hi.m, hi.e - lo.e), lo.m), FALSE,
                      lo.e - (MantissaBits - 1))

FloatAdd(x, y) ==
    IF x = Zero THEN y
    ELSE IF y = Zero THEN x
    ELSE IF x.e >= y.e THEN AddAligned(x, y) ELSE AddAligned(y, x)

FloatLess(x, y) ==
    IF y = Zero THEN FALSE
    ELSE IF x = Zero THEN TRUE
    ELSE x.e < y.e \/ (x.e = y.e /\ BigLess(x.m, y.m))

\* int(x)
Truncate(x) ==
    IF x = Zero \/ x.e < 0 THEN 0
    ELSE IntOfBig(ShiftRight(x.m, (MantissaBits - 1) - x.e).q)

(***************************************************************************)
(* _resize_image                                                           *)
(***************************************************************************)
Ok(w, h) == [ok |-> TRUE, exc |-> "none", w |-> w, h |-> h]
Raises(kind) == [ok |-> FALSE, exc |-> kind, w |-> 0, h |-> 0]

\* scale = TARGET_WIDTH / width; new_height = int(height * scale);
\* cv2.resize(image, (TARGET_WIDTH, new_height)): the quotient and the
\* product are floats, division by a zero width raises ZeroDivisionError,
\* cv2.resize rejects an empty source and an empty destination size.
Cv2Resize(h, new_height) ==
    IF h = 0 \/ new_height = 0 THEN Raises("cv2.error") ELSE Ok(TARGET_WIDTH, new_height)
RescaleFloat(w, h) ==
    IF w = 0 THEN Raises("ZeroDivisionError")
    ELSE Cv2Resize(h, Truncate(FloatMultiply(TrueDivide(TARGET_WIDTH, w), h)))

\* the sizes of the images, of the rectangles, of the padded boxes and of
\* the boxes spanning two rectangles in the runs; what RescaleFloat gives for
\* them is computed once
TabulatedSizes ==
    ImageSizes
        \cup {<<Max(sh[1], t[1]), Max(sh[2], t[2])>> : sh \in RectShapes, t \in RectShapes}
        \cup {<<sh[1] + 2 * Padding, sh[2] + 2 * Padding>> : sh \in RectShapes}

RescaleTable == [d \in TabulatedSizes |-> RescaleFloat(d[1], d[2])]

Rescale(w, h) ==
    IF <<w, h>> \in TabulatedSizes THEN RescaleTable[<<w, h>>] ELSE RescaleFloat(w, h)

ResizeImage(w, h) ==
    IF w < TARGET_WIDTH THEN Rescale(w, h)
    ELSE IF w > TARGET_WIDTH * 2 THEN Rescale(w, h)
    ELSE Ok(w, h)

\* preprocess_image / preprocess_for_detection: resize, then cv2 filters that
\* reject an empty image.
Preprocess(w, h) ==
    LET r == ResizeImage(w, h)
    IN  IF ~r.ok THEN r
        ELSE IF r.w = 0 \/ r.h = 0 THEN Raises("cv2.error")
        ELSE r

(***************************************************************************)
(* detect_text_regions                                                     *)
(***************************************************************************)
\* the area and aspect-ratio filters of the primary strategy on a rectangle
\* <<x, y, w, h>>; width and height are those of the image passed in
KeepContour(r, width, height) ==
    LET area == r[3] * r[4]
    IN  /\ ~(area < MIN_CONTOUR_AREA)
        /\ ~(MaxAreaDen * area > MaxAreaNum * (height * width))
        /\ ~(MinAspectDen * r[3] < r[4] \/ r[3] > MaxAspectNum * r[4])

\* padding and clipping
PadAndClip(r, width, height) ==
    LET x == Max(0, r[1] - Padding)
        y == Max(0, r[2] - Padding)
    IN  BoundingBox(x, y, Min(width - x, r[3] + 2 * Padding),
                          Min(height - y, r[4] + 2 * Padding))

RECURSIVE PrimaryBoxes(_, _, _)
PrimaryBoxes(cs, width, height) ==
    IF cs = <<>> THEN <<>>
    ELSE IF KeepContour(Head(cs), width, height)
         THEN <<PadAndClip(Head(cs), width, height)>> \o PrimaryBoxes(Tail(cs), width, height)
         ELSE PrimaryBoxes(Tail(cs), width, height)

\* the area filter of _detect_text_regions_mser
KeepBlob(r, width, height) ==
    LET area == r[3] * r[4]
    IN  ~(area < MIN_CONTOUR_AREA \/ MaxAreaDen * area > MaxAreaNum * (width * height))

RECURSIVE BlobBoxes(_, _, _)
BlobBoxes(rs, width, height) ==
    IF rs = <<>> THEN <<>>
    ELSE IF KeepBlob(Head(rs), width, height)
         THEN <<BoundingBox(Head(rs)[1], Head(rs)[2], Head(rs)[3], Head(rs)[4])>>
              \o BlobBoxes(Tail(rs), width, height)
         ELSE BlobBoxes(Tail(rs), width, height)

DetectTextRegionsMser(rs, width, height) == MergeOverlappingBoxes(BlobBoxes(rs, width, height))

\* the blob strategy run whatever the primary strategy kept
FallsBackAlways(prim) == TRUE

\* `if not bounding_boxes:` of detect_text_regions
FallsBackToMser(prim) == prim = <<>>

\* the list before sorting
DetectUnsorted(cs, rs, width, height) ==
    LET prim == PrimaryBoxes(cs, width, height)
    IN  IF FallsBackToMser(prim) THEN DetectTextRegionsMser(rs, width, height) ELSE prim

DetectTextRegions(cs, rs, width, height) ==
    SortBoundingBoxes(DetectUnsorted(cs, rs, width, height))

\* process_image without the fallback
SubstituteNothing(bs, width, height) == bs

\* `if not bounding_boxes:` of process_image: whole-image OCR fallback
SubstituteWholeImage(bs, width, height) ==
    IF bs = <<>> THEN <<BoundingBox(0, 0, width, height)>> ELSE bs

(***************************************************************************)
(* extract_text_from_region / perform_region_wise_ocr                      *)
(***************************************************************************)
\* length of the numpy slice a:b of an axis of n pixels
SliceLen(a, b, n) ==
    LET lo == IF a < 0 THEN Max(a + n, 0) ELSE Min(a, n)
        hi == IF b < 0 THEN Max(b + n, 0) ELSE Min(b, n)
    IN  Max(0, hi - lo)

\* shape of image[y:y+height, x:x+width]
CropShape(b, width, height) ==
    <<SliceLen(b.x, b.x + b.width, width), SliceLen(b.y, b.y + b.height, height)>>

\* a filter that drops only the empty words
SurvivesAnyConfidence(w) == w.text # ""

\* `if not text or conf < MIN_CONFIDENCE_THRESHOLD: continue`
Survives(w) == ~(w.text = "" \/ w.conf < MIN_CONFIDENCE_THRESHOLD)

RECURSIVE SurvivingWords(_)
SurvivingWords(ws) ==
    IF ws = <<>> THEN <<>>
    ELSE IF Survives(Head(ws)) THEN <<Head(ws)>> \o SurvivingWords(Tail(ws))
    ELSE SurvivingWords(Tail(ws))

RECURSIVE SumConf(_)
SumConf(ws) == IF ws = <<>> THEN 0 ELSE Head(ws).conf + SumConf(Tail(ws))

\* what `except Exception` around image_to_data returns: "", 0.0, []
RecognizerFailed == [ok |-> TRUE, exc |-> "none", text |-> <<>>, confSum |-> 0, confN |-> 0]

\* extract_text_from_region: crop and preprocess (outside the try), recognize
\* (inside it), filter and average.  text is the list of surviving word texts
\* (joined by single spaces in the source); the average confidence is
\* confSum / confN on the recognizer's 0..100 scale (0.0 when confN = 0).
ExtractTextFromRegion(b, width, height, outcome) ==
    LET shape == CropShape(b, width, height)
        pre == Preprocess(shape[1], shape[2])
        kept == SurvivingWords(outcome.words)
    IN  IF ~pre.ok THEN [ok |-> FALSE, exc |-> pre.exc, text |-> <<>>, confSum |-> 0, confN |-> 0]
        ELSE IF outcome.raised THEN RecognizerFailed
        ELSE [ok |-> TRUE, exc |-> "none",
              text |-> [k \in 1..Len(kept) |-> kept[k].text],
              confSum |-> SumConf(kept), confN |-> Len(kept)]

\* a region reported whatever was recognized in it
ReportsEveryRegion(r) == TRUE

\* `if text:` of perform_region_wise_ocr
ReportsRegion(r) == r.text # <<>>

\* regions numbered from one
TextRegionFromOne(b, r, index) ==
    [x |-> b.x, y |-> b.y, width |-> b.width, height |-> b.height,
     text |-> r.text, confSum |-> r.confSum, confN |-> r.confN, region_index |-> index + 1]

\* TextRegion(..., confidence=confidence / 100.0, region_index=idx): the
\* record keeps the sum and the number of the surviving word confidences,
\* of which RegionConfidence gives the confidence
TextRegion(b, r, index) ==
    [x |-> b.x, y |-> b.y, width |-> b.width, height |-> b.height,
     text |-> r.text, confSum |-> r.confSum, confN |-> r.confN, region_index |-> index]

(***************************************************************************)
(* extract_compliance_fields                                               *)
(***************************************************************************)
Null == "null"

FieldNames == {"mrp", "net_quantity", "manufacture_date", "expiry_date", "country_of_origin",
               "manufacturer", "importer", "consumer_care", "batch_number", "fssai_license",
               "bis_certification"}

\* ComplianceFields()
NoFields == [f \in FieldNames |-> Null]

RECURSIVE JoinTexts(_)
JoinTexts(rs) == IF rs = <<>> THEN <<>> ELSE Head(rs).text \o JoinTexts(Tail(rs))

\* The texts of the model are lists of words (the source joins them with
\* single spaces).  The words fall into three classes, and the patterns are
\* modelled by what they match in texts made of these words.
LetterWords == {"fresh", "Mfd", "Exp", "BIS"}
DateWords == {"12/2025", "01/2024"}
NumberWords == {"12345678901234"}
Vocabulary == LetterWords \cup DateWords \cup NumberWords

\* the leading run of digits of a date or number word, at most n of them
\* (what [0-9]{1,2}[,]?\s*[0-9]{2,4} and [0-9]{2,4} take from its start)
LeadDigits(t, n) ==
    CASE t = "12/2025" -> "12"
      [] t = "01/2024" -> "01"
      [] t = "12345678901234" /\ n = 4 -> "1234"
      [] t = "12345678901234" /\ n = 6 -> "123456"

\* the last two digits of a date or number word (what [0-9]{1,2} takes when
\* letters follow)
LastTwo(t) ==
    CASE t = "12/2025" -> "25"
      [] t = "01/2024" -> "24"
      [] t = "12345678901234" -> "34"

\* patterns['date'].findall(full_text), scanning from word i; eaten tells
\* that the start of word i belongs to the previous match.
\*   MM/YYYY                 matches a whole date word;
\*   Month DD, YYYY          matches a letter word and the first six digits of
\*                           a number word after it;
\*   DD Month YYYY           matches the last two digits of a date or number
\*                           word, a letter word, and the leading digits of
\*                           the date or number word after it.
RECURSIVE DateScan(_, _, _)
DateScan(ts, i, eaten) ==
    IF i > Len(ts) THEN <<>>
    ELSE IF ts[i] \in DateWords /\ ~eaten
         THEN <<ts[i]>> \o DateScan(ts, i + 1, FALSE)
    ELSE IF ts[i] \in LetterWords
         THEN IF i + 1 <= Len(ts) /\ ts[i + 1] \in NumberWords
              THEN <<ts[i] \o " " \o LeadDigits(ts[i + 1], 6)>> \o DateScan(ts, i + 1, TRUE)
              ELSE DateScan(ts, i + 1, FALSE)
    ELSE IF /\ i + 2 <= Len(ts)
            /\ ts[i + 1] \in LetterWords
            /\ ts[i + 2] \in DateWords \cup NumberWords
         THEN <<LastTwo(ts[i]) \o " " \o ts[i + 1] \o " " \o LeadDigits(ts[i + 2], 4)>>
              \o DateScan(ts, i + 2, TRUE)
         ELSE DateScan(ts, i + 1, FALSE)

DateMatches(text) == DateScan(text, 1, FALSE)

\* group(1) of the first match of a keyword-and-date pattern whose keyword is
\* the word label, Null without a match
RECURSIVE LabelledDate(_, _, _)
LabelledDate(ts, label, i) ==
    IF i >= Len(ts) THEN Null
    ELSE IF ts[i] = label /\ ts[i + 1] \in DateWords THEN ts[i + 1]
    ELSE IF /\ ts[i] = label
            /\ ts[i + 1] \in LetterWords
            /\ i + 2 <= Len(ts)
            /\ ts[i + 2] \in NumberWords
         THEN ts[i + 1] \o " " \o LeadDigits(ts[i + 2], 6)
    ELSE LabelledDate(ts, label, i + 1)

\* patterns['mfg_date'].search(full_text)
MfgDateMatch(text) == LabelledDate(text, "Mfd", 1)

\* patterns['exp_date'].search(full_text)
ExpDateMatch(text) == LabelledDate(text, "Exp", 1)

\* patterns['fssai'].search(full_text): the first 14-digit word
RECURSIVE FssaiMatch(_)
FssaiMatch(text) ==
    IF text = <<>> THEN Null
    ELSE IF Head(text) \in NumberWords THEN Head(text)
    ELSE FssaiMatch(Tail(text))

\* patterns['bis'].search(full_text): the word after the first BIS that has one
RECURSIVE BisMatch(_)
BisMatch(text) ==
    IF Len(text) < 2 THEN Null
    ELSE IF Head(text) = "BIS" THEN text[2]
    ELSE BisMatch(Tail(text))

\* the generic scan run also when one of the two dates is still missing
UsesGenericDatesForGaps(mfg, exp) == mfg = Null \/ exp = Null

\* `if not fields.manufacture_date and not fields.expiry_date`
UsesGenericDates(mfg, exp) == mfg = Null /\ exp = Null

\* a single date never taken for the expiry date
SingleDateNeverExpiry(cat) == FALSE

\* `if category == ProductCategory.FOOD` for a single generic date
SingleDateIsExpiry(cat) == cat = "food"

\* the license looked for whatever the category
FssaiAttemptedAlways(cat) == TRUE

\* `if category == ProductCategory.FOOD or category is None`
FssaiAttempted(cat) == cat \in {"food", "none"}

\* `if category == ProductCategory.ELECTRONICS or category is None`
BisAttempted(cat) == cat \in {"electronics", "none"}

\* The two date fields after the explicit patterns and the generic fallback,
\* as <<manufacture_date, expiry_date>>
DateFields(text, cat) ==
    LET mfg == MfgDateMatch(text)
        exp == ExpDateMatch(text)
        dates == DateMatches(text)
    IN  IF ~UsesGenericDates(mfg, exp) THEN <<mfg, exp>>
        ELSE IF Len(dates) >= 2 THEN <<dates[1], dates[2]>>
        ELSE IF Len(dates) = 1
             THEN IF SingleDateIsExpiry(cat) THEN <<mfg, dates[1]>> ELSE <<dates[1], exp>>
        ELSE <<mfg, exp>>

\* No word of the vocabulary is matched by the other seven patterns, which
\* leave their fields null.
ExtractComplianceFields(text, cat) ==
    [NoFields EXCEPT
        !["manufacture_date"] = DateFields(text, cat)[1],
        !["expiry_date"] = DateFields(text, cat)[2],
        !["fssai_license"] = IF FssaiAttempted(cat) THEN FssaiMatch(text) ELSE Null,
        !["bis_certification"] = IF BisAttempted(cat) THEN BisMatch(text) ELSE Null]

(***************************************************************************)
(* calculate_confidence_metrics                                            *)
(***************************************************************************)
HighBound == 85
MediumBound == 70
LowBound == 50

\* TextRegion.confidence: avg_confidence / 100.0, avg_confidence being
\* sum(confidences) / len(confidences) (0.0 without surviving words)
RegionConfidence(r) ==
    IF r.confN = 0 THEN Zero ELSE FloatDivide(TrueDivide(r.confSum, r.confN), 100)

\* [r.confidence for r in text_regions]
RegionConfidences(rs) == [k \in 1..Len(rs) |-> RegionConfidence(rs[k])]

\* sum(region_confidences): the floats added from left to right
RECURSIVE FloatSum(_)
FloatSum(cs) ==
    IF cs = <<>> THEN Zero
    ELSE FloatAdd(FloatSum(SubSeq(cs, 1, Len(cs) - 1)), cs[Len(cs)])

\* overall_confidence = sum(region_confidences) / len(region_confidences)
OverallConfidence(rs) ==
    IF rs = <<>> THEN Zero ELSE FloatDivide(FloatSum(RegionConfidences(rs)), Len(rs))

\* the float of the literals 0.85, 0.70 and 0.50, and of
\* LOW_CONFIDENCE_THRESHOLD / 100.0
Hundredths(p) == TrueDivide(p, 100)

\* the chain with exclusive bounds
LevelOfExclusive(c) ==
    IF FloatLess(Hundredths(HighBound), c) THEN "HIGH"
    ELSE IF FloatLess(Hundredths(MediumBound), c) THEN "MEDIUM"
    ELSE IF FloatLess(Hundredths(LowBound), c) THEN "LOW"
    ELSE "VERY_LOW"

\* the if / elif chain over overall_confidence
LevelOf(c) ==
    IF ~FloatLess(c, Hundredths(HighBound)) THEN "HIGH"
    ELSE IF ~FloatLess(c, Hundredths(MediumBound)) THEN "MEDIUM"
    ELSE IF ~FloatLess(c, Hundredths(LowBound)) THEN "LOW"
    ELSE "VERY_LOW"

\* c < LOW_CONFIDENCE_THRESHOLD / 100.0 for a region
IsLowConfidence(r) == FloatLess(RegionConfidence(r), Hundredths(LOW_CONFIDENCE_THRESHOLD))

RECURSIVE CountLow(_)
CountLow(rs) ==
    IF rs = <<>> THEN 0
    ELSE (IF IsLowConfidence(Head(rs)) THEN 1 ELSE 0) + CountLow(Tail(rs))

\* calculate_confidence_metrics on regions of these confidences
MetricsOf(rs, overall) ==
    [overall |-> overall, level |-> LevelOf(overall),
     region_confidences |-> RegionConfidences(rs), low |-> CountLow(rs)]
MetricsFloat(rs) ==
    IF rs = <<>>
    THEN [overall |-> Zero, level |-> "VERY_LOW", region_confidences |-> <<>>, low |-> 0]
    ELSE MetricsOf(rs, OverallConfidence(rs))

\* the word confidences of the regions, which give their confidence
WordConfidences(rs) ==
    [k \in 1..Len(rs) |-> [confSum |-> rs[k].confSum, confN |-> rs[k].confN]]

\* the word confidences of the regions of the pipeline runs; what
\* MetricsFloat gives for them is computed once
TabulatedRegions ==
    {[confSum |-> SumConf(SurvivingWords(ws)), confN |-> Len(SurvivingWords(ws))] :
        ws \in {v \in SeqsUpTo(Words, MaxWords) : SurvivingWords(v) # <<>>}}

MetricsTable == [cs \in SeqsUpTo(TabulatedRegions, MaxContours) |-> MetricsFloat(cs)]

CalculateConfidenceMetrics(rs) ==
    IF WordConfidences(rs) \in DOMAIN MetricsTable
    THEN MetricsTable[WordConfidences(rs)]
    ELSE MetricsFloat(rs)

\* round(x, 4) for 0 <= x < 2, in ten-thousandths
Round4Float(x) ==
    IF x = Zero THEN 0
    ELSE IntOfBig(RoundShift(BigMul(x.m, 10000), FALSE, (MantissaBits - 1) - x.e))

\* computed once for the overall confidences of the pipeline runs
Round4Table ==
    [x \in {MetricsTable[cs].overall : cs \in DOMAIN MetricsTable} |-> Round4Float(x)]

Round4(x) == IF x \in DOMAIN Round4Table THEN Round4Table[x] ELSE Round4Float(x)

\* `needs_review = level in [LOW, VERY_LOW]`
NeedsReview(level) == level \in {"LOW", "VERY_LOW"}

(***************************************************************************)
(* OCRProcessingResult                                                     *)
(***************************************************************************)
NoResult == [returned |-> FALSE]

\* the call is left by an exception of this kind instead of a value
Escaped(kind) == [returned |-> FALSE, exception |-> kind]

\* an error result that reports the failure without grading it VERY_LOW
ErrorResultAsLow(message) ==
    [returned |-> TRUE, fields |-> NoFields, confidence_score |-> 0,
     confidence_level |-> "LOW", region_confidences |-> <<>>,
     raw_text_regions |-> <<>>, combined_text |-> <<>>,
     total_regions_detected |-> 0, regions_processed |-> 0, low_confidence_regions |-> 0,
     image_dimensions |-> <<0, 0>>, needs_review |-> FALSE, error |-> message]

\* OCRProcessingResult(confidence_score=0.0, confidence_level=VERY_LOW, error=...):
\* every other field keeps its declared default
ErrorResult(message) ==
    [returned |-> TRUE, fields |-> NoFields, confidence_score |-> 0,
     confidence_level |-> "VERY_LOW", region_confidences |-> <<>>,
     raw_text_regions |-> <<>>, combined_text |-> <<>>,
     total_regions_detected |-> 0, regions_processed |-> 0, low_confidence_regions |-> 0,
     image_dimensions |-> <<0, 0>>, needs_review |-> FALSE, error |-> message]

\* the result assembled at the end of process_image; the model validates
\* confidence_score against Field(ge=0, le=1) as pydantic does
SuccessResult(rs, bs, cat, dims) ==
    LET text == JoinTexts(rs)
        m == CalculateConfidenceMetrics(rs)
    IN  [returned |-> TRUE, fields |-> ExtractComplianceFields(text, cat),
         confidence_score |-> Round4(m.overall),
         confidence_level |-> m.level, region_confidences |-> m.region_confidences,
         raw_text_regions |-> rs, combined_text |-> text,
         total_regions_detected |-> Len(bs), regions_processed |-> Len(rs),
         low_confidence_regions |-> m.low,
         image_dimensions |-> dims, needs_review |-> NeedsReview(m.level), error |-> "none"]

ScoreValid(score) == score >= 0 /\ score <= 10000

(***************************************************************************)
(* The service instance                                                    *)
(***************************************************************************)
\* keys of self.patterns
PatternNames == {"mrp", "net_quantity", "date", "mfg_date", "exp_date", "country",
                 "manufacturer", "importer", "consumer_care", "batch", "fssai", "bis"}

\* pytesseract.pytesseract.tesseract_cmd: the library's default, the path
\* find_tesseract_path detected, or the path the tesseract_cmd setting gives,
\* which names an executable or a file that does not exist
TesseractCmds == {"default", "configured", "from_settings", "from_settings_missing"}

\* settings.tesseract_cmd: None, the path of an executable, or a path at
\* which there is no file
Settings == {"unset", "executable", "missing"}

\* no service exists yet: the instance has no patterns and the pytesseract
\* module has its default command
Unconstructed == [patterns |-> {}, tesseract_cmd |-> "default"]

\* _configure_tesseract: the command is assigned only when find_tesseract_path
\* found an executable; otherwise a warning is logged and it stays as it was
ConfigureTesseract(cmd, found) == IF found THEN "configured" ELSE cmd

\* OCRService.__init__: settings.tesseract_cmd or find_tesseract_path(),
\* assigned when it is not None; the path of the setting is not tested
OcrServiceInit(sh, setting, found) ==
    [sh EXCEPT !.tesseract_cmd = IF setting = "executable" THEN "from_settings"
                                 ELSE IF setting = "missing" THEN "from_settings_missing"
                                 ELSE ConfigureTesseract(@, found)]

\* AdvancedOCRService.__init__: _configure_tesseract, then
\* _compile_regex_patterns fills self.patterns
AdvancedInit(sh, found) ==
    [patterns |-> PatternNames,
     tesseract_cmd |-> ConfigureTesseract(sh.tesseract_cmd, found)]

\* what the start of main.py leaves behind, in an environment with or without
\* the setting and with or without a tesseract executable: OCRService() is
\* constructed before get_advanced_ocr_service() is first called
Constructed ==
    {AdvancedInit(OcrServiceInit(Unconstructed, setting, found), found) :
        setting \in Settings, found \in BOOLEAN}

\* pytesseract runs the command tesseract_cmd names: the detected path names
\* an executable, the path of the setting names one or none, and the default
\* command is the one find_tesseract_path did not find
Runnable(cmd) == cmd \in {"configured", "from_settings"}

\* what image_to_data can do for a region under the command: without an
\* executable it raises for every region
RecognizerOutcomesWith(cmd) ==
    IF Runnable(cmd) THEN RecognizerOutcomes
    ELSE {[raised |-> TRUE, words |-> <<>>]}

(***************************************************************************)
(* The call: process_image, process_image_url, process_image_path          *)
(***************************************************************************)
Init ==
    /\ pc = "idle"
    /\ entry = "none"
    /\ category = "none"
    /\ acquired = "none"
    /\ decodeCalls = 0
    /\ img = <<0, 0>>
    /\ decoded = "pending"
    /\ primary = <<>>
    /\ usedMser = FALSE
    /\ detected = <<>>
    /\ detectedRows = <<>>
    /\ boxes = <<>>
    /\ idx = 0
    /\ regions = <<>>
    /\ ocrLog = <<>>
    /\ steps = {}
    /\ result = NoResult
    /\ fpc = "off"
    /\ boxesIn = <<>>
    /\ boxesOut = <<>>
    /\ rowsOut = <<>>
    /\ fnIn = <<>>
    /\ fnOut = <<>>
    /\ shared \in Constructed
    /\ calls = <<>>
    /\ SvcIdle

\* An exception of the given kind propagates to the `except Exception` handler
\* of the function the call is in; message is the error the handler reports.
\* An exception that no handler caught leaves the call with the exception.
Thrown(kind, message) ==
    IF CaughtByExceptException(kind)
    THEN /\ pc' = IF entry = "url" THEN "release" ELSE "returned"
         /\ result' = ErrorResult(message)
    ELSE /\ pc' = "raised"
         /\ result' = Escaped(kind)

\* a return statement: process_image_url returns from inside its two
\* `async with` blocks, whose exits run before the caller has the value
Return(res) ==
    /\ pc' = IF entry = "url" THEN "release" ELSE "returned"
    /\ result' = res

CallProcessImage ==
    /\ pc = "idle"
    /\ \E cat \in Categories : category' = cat
    /\ entry' = "bytes"
    /\ pc' = "decode"
    /\ decodeCalls' = decodeCalls + 1
    /\ UNCHANGED <<acquired, img, decoded, primary, usedMser, detected, detectedRows, boxes,
                   idx, regions, ocrLog, steps, result, fnVars>>

CallProcessImageUrl ==
    /\ pc = "idle"
    /\ \E cat \in Categories : category' = cat
    /\ entry' = "url"
    /\ pc' = "import"
    /\ UNCHANGED <<acquired, decodeCalls, img, decoded, primary, usedMser, detected,
                   detectedRows, boxes, idx, regions, ocrLog, steps, result, fnVars>>

CallProcessImagePath ==
    /\ pc = "idle"
    /\ \E cat \in Categories : category' = cat
    /\ entry' = "path"
    /\ pc' = "read"
    /\ UNCHANGED <<acquired, decodeCalls, img, decoded, primary, usedMser, detected,
                   detectedRows, boxes, idx, regions, ocrLog, steps, result, fnVars>>

\* `import aiohttp`, the first statement of process_image_url: the package
\* is installed or it is not
ImportOutcomes == {"imported", "missing"}

\* the import stands before the `try`, so its ImportError reaches no handler
\* of process_image_url and leaves the call
ImportAiohttp ==
    /\ pc = "import"
    /\ \E o \in ImportOutcomes :
        IF o = "imported"
        THEN /\ pc' = "fetch"
             /\ UNCHANGED result
        ELSE /\ pc' = "raised"
             /\ result' = Escaped("ImportError")
    /\ UNCHANGED <<entry, category, acquired, decodeCalls, img, decoded, primary, usedMser,
                   detected, detectedRows, boxes, idx, regions, ocrLog, steps, fnVars>>

\* what `await session.get(..., timeout=30)` resumes with
FetchOutcomes == {"http_200", "http_404", "timeout", "client_error"}

\* a response without an image handed on like a good one
ResponseOkOrMissing(o) == o \in {"http_200", "http_404"}

\* `if response.status != 200` is not taken
ResponseOk(o) == o = "http_200"

\* what `await response.read()` resumes with: the body, or the exception of a
\* connection that broke or timed out while the body was read
BodyOutcomes == {"body", "timeout", "client_error"}

\* where process_image_url is suspended and other tasks run: in session.get,
\* in response.read, in the exit of each `async with`
SuspensionPoints == {"fetch", "read_body", "release", "close"}

\* an exception raised inside the `async with` blocks of process_image_url
\* unwinds through the exits that remain, the first of them `exit`, before
\* it reaches the handler
Unwinding(kind, exit) ==
    /\ pc' = exit
    /\ result' = Escaped(kind)

\* the exception reaches `except Exception` of process_image_url
Handled(kind) ==
    IF CaughtByExceptException(kind)
    THEN /\ pc' = "returned"
         /\ result' = ErrorResult("Failed to fetch image: " \o kind)
    ELSE /\ pc' = "raised"
         /\ result' = Escaped(kind)

\* session.get resumes: a response, whose status is tested, or an exception,
\* raised before the response block is entered
Fetch ==
    /\ pc = "fetch"
    /\ \E o \in FetchOutcomes :
        /\ acquired' = o
        /\ IF ResponseOk(o)
           THEN /\ pc' = "read_body"
                /\ UNCHANGED result
           ELSE IF o = "http_404" THEN Return(ErrorResult("Failed to fetch image: HTTP 404"))
                ELSE IF o = "timeout" THEN Unwinding("TimeoutError", "close")
                     ELSE Unwinding("ClientError", "close")
    /\ UNCHANGED <<entry, category, decodeCalls, img, decoded, primary, usedMser, detected,
                   detectedRows, boxes, idx, regions, ocrLog, steps, fnVars>>

\* response.read resumes: process_image is called with the body, or the
\* exception unwinds through both exits
ReadBody ==
    /\ pc = "read_body"
    /\ \E b \in BodyOutcomes :
        IF b = "body"
        THEN /\ pc' = "decode"
             /\ decodeCalls' = decodeCalls + 1
             /\ UNCHANGED <<acquired, result>>
        ELSE /\ acquired' = b
             /\ UNCHANGED decodeCalls
             /\ IF b = "timeout" THEN Unwinding("TimeoutError", "release")
                ELSE Unwinding("ClientError", "release")
    /\ UNCHANGED <<entry, category, img, decoded, primary, usedMser, detected, detectedRows,
                   boxes, idx, regions, ocrLog, steps, fnVars>>

\* the exit of `async with session.get(...) as response`
ReleaseResponse ==
    /\ pc = "release"
    /\ pc' = "close"
    /\ UNCHANGED <<entry, category, acquired, decodeCalls, img, decoded, primary, usedMser,
                   detected, detectedRows, boxes, idx, regions, ocrLog, steps, result, fnVars>>

\* the exit of `async with aiohttp.ClientSession() as session`: the caller
\* has the value returned, or the exception reaches the handler
CloseSession ==
    /\ pc = "close"
    /\ IF result.returned
       THEN /\ pc' = "returned"
            /\ UNCHANGED result
       ELSE Handled(result.exception)
    /\ UNCHANGED <<entry, category, acquired, decodeCalls, img, decoded, primary, usedMser,
                   detected, detectedRows, boxes, idx, regions, ocrLog, steps, fnVars>>

\* the task awaiting process_image_url is cancelled while the call is
\* suspended: asyncio.CancelledError is raised at the await and unwinds
\* through the exits that remain; `except Exception` does not catch it
Cancel ==
    /\ pc \in SuspensionPoints
    /\ IF pc = "close" THEN Handled("CancelledError")
       ELSE Unwinding("CancelledError", IF pc = "read_body" THEN "release" ELSE "close")
    /\ UNCHANGED <<entry, category, acquired, decodeCalls, img, decoded, primary, usedMser,
                   detected, detectedRows, boxes, idx, regions, ocrLog, steps, fnVars>>

\* open(image_path, 'rb') and f.read() of process_image_path: the bytes,
\* FileNotFoundError, another OSError (a directory, no permission, an I/O
\* error), or an exception that is no OSError (ValueError for a path with a
\* NUL character)
ReadOutcomes == {"ok", "not_found", "os_error", "value_error"}

ReadFile ==
    /\ pc = "read"
    /\ \E o \in ReadOutcomes :
        /\ acquired' = o
        /\ IF o = "ok"
           THEN /\ pc' = "decode"
                /\ decodeCalls' = decodeCalls + 1
                /\ UNCHANGED result
           ELSE /\ UNCHANGED decodeCalls
                /\ IF o = "not_found" THEN Return(ErrorResult("Image file not found"))
                   ELSE IF o = "os_error"
                        THEN Thrown("OSError", "Failed to read image: OSError")
                        ELSE Thrown("ValueError", "Failed to read image: ValueError")
    /\ UNCHANGED <<entry, category, img, decoded, primary, usedMser, detected, detectedRows,
                   boxes, idx, regions, ocrLog, steps, fnVars>>

\* np.frombuffer + cv2.imdecode: None for bytes that are no image, cv2.error
\* for an empty buffer, else an image
Decode ==
    /\ pc = "decode"
    /\ \/ /\ decoded' = "none"
          /\ Return(ErrorResult("Failed to decode image"))
          /\ UNCHANGED img
       \/ /\ decoded' = "raised"
          /\ Thrown("cv2.error", "cv2.error")
          /\ UNCHANGED img
       \/ /\ decoded' = "image"
          /\ \E d \in ImageSizes : img' = d
          /\ pc' = "detect"
          /\ UNCHANGED result
    /\ UNCHANGED <<entry, category, acquired, decodeCalls, primary, usedMser, detected,
                   detectedRows, boxes, idx, regions, ocrLog, steps, fnVars>>

\* detect_text_regions(image) up to the end of the primary strategy's loop;
\* with boxes kept it goes on to the sort, the return and process_image's
\* `if not bounding_boxes` check
Detect ==
    /\ pc = "detect"
    /\ steps' = steps \cup {"detect"}
    /\ LET width == img[1]
           height == img[2]
           grid == Preprocess(width, height)
       IN  IF ~grid.ok
           THEN /\ Thrown(grid.exc, grid.exc)
                /\ UNCHANGED <<primary, detected, detectedRows, boxes>>
           ELSE \E cs \in SeqsUpTo(RectsIn(grid.w, grid.h), MaxContours) :
                    /\ primary' = PrimaryBoxes(cs, width, height)
                    /\ UNCHANGED result
                    /\ IF FallsBackToMser(PrimaryBoxes(cs, width, height))
                       THEN /\ pc' = "mser"
                            /\ UNCHANGED <<detected, detectedRows, boxes>>
                       ELSE /\ pc' = "ocr"
                            /\ detected' = DetectTextRegions(cs, <<>>, width, height)
                            /\ detectedRows' = GroupRows(DetectUnsorted(cs, <<>>, width, height))
                            /\ boxes' = SubstituteWholeImage(
                                            DetectTextRegions(cs, <<>>, width, height),
                                            width, height)
    /\ UNCHANGED <<entry, category, acquired, decodeCalls, img, decoded, usedMser, idx,
                   regions, ocrLog, fnVars>>

\* _detect_text_regions_mser(image), then the sort, the return of
\* detect_text_regions and process_image's `if not bounding_boxes` check
DetectMser ==
    /\ pc = "mser"
    /\ usedMser' = TRUE
    /\ \E rs \in SeqsUpTo(RectsIn(img[1], img[2]), MaxContours) :
        /\ detected' = DetectTextRegions(<<>>, rs, img[1], img[2])
        /\ detectedRows' = GroupRows(DetectUnsorted(<<>>, rs, img[1], img[2]))
        /\ boxes' = SubstituteWholeImage(DetectTextRegions(<<>>, rs, img[1], img[2]),
                                         img[1], img[2])
    /\ pc' = "ocr"
    /\ UNCHANGED <<entry, category, acquired, decodeCalls, img, decoded, primary, idx,
                   regions, ocrLog, steps, result, fnVars>>

\* one iteration of the loop of perform_region_wise_ocr
RecognizeRegion ==
    /\ pc = "ocr"
    /\ idx < Len(boxes)
    /\ steps' = steps \cup {"ocr"}
    /\ LET b == boxes[idx + 1]
           shape == CropShape(b, img[1], img[2])
           pre == Preprocess(shape[1], shape[2])
       IN  IF ~pre.ok
           THEN /\ Thrown(pre.exc, pre.exc)
                /\ ocrLog' = Append(ocrLog, [index |-> idx, failed |-> TRUE, raised |-> FALSE,
                                             kept |-> 0])
                /\ UNCHANGED <<idx, regions>>
           ELSE \E o \in RecognizerOutcomesWith(shared.tesseract_cmd) :
                LET r == ExtractTextFromRegion(b, img[1], img[2], o)
                IN  /\ regions' = IF ReportsRegion(r)
                                  THEN Append(regions, TextRegion(b, r, idx))
                                  ELSE regions
                    /\ ocrLog' = Append(ocrLog, [index |-> idx, failed |-> FALSE,
                                                 raised |-> o.raised, kept |-> r.confN])
                    /\ idx' = idx + 1
                    /\ UNCHANGED <<pc, result>>
    /\ UNCHANGED <<entry, category, acquired, decodeCalls, img, decoded, primary, usedMser,
                   detected, detectedRows, boxes, fnVars>>

\* steps 3 to 5 of process_image and the construction of the result
Assemble ==
    /\ pc = "ocr"
    /\ idx = Len(boxes)
    /\ steps' = steps \cup {"extract", "metrics"}
    /\ LET res == SuccessResult(regions, boxes, category, img)
       IN  IF ScoreValid(res.confidence_score) THEN Return(res)
           ELSE Thrown("ValidationError", "ValidationError")
    /\ UNCHANGED <<entry, category, acquired, decodeCalls, img, decoded, primary, usedMser,
                   detected, detectedRows, boxes, idx, regions, ocrLog, fnVars>>

Next ==
    \/ CallProcessImage
    \/ CallProcessImageUrl
    \/ CallProcessImagePath
    \/ ImportAiohttp
    \/ Fetch
    \/ ReadBody
    \/ ReleaseResponse
    \/ CloseSession
    \/ Cancel
    \/ ReadFile
    \/ Decode
    \/ Detect
    \/ DetectMser
    \/ RecognizeRegion
    \/ Assemble

Spec == Init /\ [][Next]_vars

(***************************************************************************)
(* The box functions applied to bounded inputs                             *)
(***************************************************************************)
InputBoxes ==
    {BoundingBox(x, y, w, h) : x \in 0..MaxX, y \in 0..MaxY, w \in 1..MaxSide, h \in 1..MaxSide}

\* the pipeline has not been called; the function is about to be applied to bs
FnReady(bs) ==
    /\ pc = "idle"
    /\ entry = "none"
    /\ category = "none"
    /\ acquired = "none"
    /\ decodeCalls = 0
    /\ img = <<0, 0>>
    /\ decoded = "pending"
    /\ primary = <<>>
    /\ usedMser = FALSE
    /\ detected = <<>>
    /\ detectedRows = <<>>
    /\ boxes = <<>>
    /\ idx = 0
    /\ regions = <<>>
    /\ ocrLog = <<>>
    /\ steps = {}
    /\ result = NoResult
    /\ fpc = "ready"
    /\ boxesIn = bs
    /\ boxesOut = <<>>
    /\ rowsOut = <<>>
    /\ fnIn = <<>>
    /\ fnOut = <<>>
    /\ shared \in Constructed
    /\ calls = <<>>
    /\ SvcIdle

InitMerge == \E bs \in SeqsUpTo(InputBoxes, MaxMergeBoxes) : FnReady(bs)

InitSort == \E bs \in SeqsUpTo(InputBoxes, MaxSortBoxes) : FnReady(bs)

ApplyMerge ==
    /\ fpc = "ready"
    /\ boxesOut' = MergeOverlappingBoxes(boxesIn)
    /\ fpc' = "done"
    /\ UNCHANGED <<pipeVars, boxesIn, rowsOut, fnIn, fnOut, shared, calls, svcVars>>

ApplySort ==
    /\ fpc = "ready"
    /\ boxesOut' = SortBoundingBoxes(boxesIn)
    /\ rowsOut' = GroupRows(boxesIn)
    /\ fpc' = "done"
    /\ UNCHANGED <<pipeVars, boxesIn, fnIn, fnOut, shared, calls, svcVars>>

SpecMerge == InitMerge /\ [][ApplyMerge]_vars

SpecSort == InitSort /\ [][ApplySort]_vars

(***************************************************************************)
(* The other functions applied to bounded inputs                           *)
(***************************************************************************)
MaxTokens == 3       \* words of the text given to extract_compliance_fields
MaxRegions == 3      \* text regions given to calculate_confidence_metrics
MaxOcrRegions == 3   \* boxes given to perform_region_wise_ocr

\* the pipeline has not been called
PipelineIdle ==
    /\ pc = "idle"
    /\ entry = "none"
    /\ category = "none"
    /\ acquired = "none"
    /\ decodeCalls = 0
    /\ img = <<0, 0>>
    /\ decoded = "pending"
    /\ primary = <<>>
    /\ usedMser = FALSE
    /\ detected = <<>>
    /\ detectedRows = <<>>
    /\ boxes = <<>>
    /\ idx = 0
    /\ regions = <<>>
    /\ ocrLog = <<>>
    /\ steps = {}
    /\ result = NoResult

\* a function is about to be applied to arg on a constructed service
FnCall(arg) ==
    /\ PipelineIdle
    /\ fpc = "ready"
    /\ boxesIn = <<>>
    /\ boxesOut = <<>>
    /\ rowsOut = <<>>
    /\ fnIn = arg
    /\ fnOut = <<>>
    /\ shared \in Constructed
    /\ calls = <<>>
    /\ SvcIdle

\* the function returns ret
FnReturn(ret) ==
    /\ fpc = "ready"
    /\ fnOut' = ret
    /\ fpc' = "done"
    /\ UNCHANGED <<pipeVars, boxesIn, boxesOut, rowsOut, fnIn, shared, calls, svcVars>>

\* extract_compliance_fields(text_regions, combined_text, category)
InitFields ==
    \E ts \in SeqsUpTo(Vocabulary, MaxTokens), cat \in Categories :
        FnCall([text |-> ts, category |-> cat])

ApplyExtract == FnReturn(ExtractComplianceFields(fnIn.text, fnIn.category))

SpecFields == InitFields /\ [][ApplyExtract]_vars

\* calculate_confidence_metrics(text_regions) for regions of any confidence:
\* confidences in percent around the three boundaries and at both ends
ConfidencePercents == {0, 49, 50, 51, 69, 70, 71, 84, 85, 86, 100}

\* a TextRegion with confidence p / 100
RegionWith(p, index) ==
    TextRegion(BoundingBox(0, 0, 10, 10),
               [text |-> <<"fresh">>, confSum |-> p, confN |-> 1], index)

InitMetrics ==
    \E ps \in SeqsUpTo(ConfidencePercents, MaxRegions) :
        FnCall([k \in 1..Len(ps) |-> RegionWith(ps[k], k - 1)])

ApplyMetrics == FnReturn(CalculateConfidenceMetrics(fnIn))

SpecMetrics == InitMetrics /\ [][ApplyMetrics]_vars

\* perform_region_wise_ocr(image, bounding_boxes): the loop over the boxes,
\* os[k] being what the recognizer does for box k; an exception of
\* extract_text_from_region ends the loop (the crops of OcrBoxes raise none)
RECURSIVE PerformRegionWiseOcr(_, _, _, _, _)
PerformRegionWiseOcr(bs, os, width, height, index) ==
    IF bs = <<>> THEN <<>>
    ELSE LET r == ExtractTextFromRegion(Head(bs), width, height, Head(os))
         IN  IF ~r.ok THEN <<>>
             ELSE (IF ReportsRegion(r) THEN <<TextRegion(Head(bs), r, index)>> ELSE <<>>)
                  \o PerformRegionWiseOcr(Tail(bs), Tail(os), width, height, index + 1)

\* n boxes stacked in a 1200 x 800 image
OcrBoxes(n) == [k \in 1..n |-> BoundingBox(0, 100 * (k - 1), 1200, 100)]

InitOcr == \E os \in SeqsUpTo(RecognizerOutcomes, MaxOcrRegions) : FnCall(os)

\* steps 2 to 5 of process_image on these boxes: the regions, the metrics
\* calculate_confidence_metrics returns for them, and the result built of both
ApplyOcr ==
    LET bs == OcrBoxes(Len(fnIn))
        rs == PerformRegionWiseOcr(bs, fnIn, 1200, 800, 0)
    IN  FnReturn([metrics |-> CalculateConfidenceMetrics(rs),
                  result |-> SuccessResult(rs, bs, "none", <<1200, 800>>)])

SpecOcr == InitOcr /\ [][ApplyOcr]_vars

\* _resize_image(image) for images of these widths and heights
ResizeWidths == {1, 100, 600, 1199, 1200, 1201, 2399, 2400, 2401, 3000, 4800}
ResizeHeights == {1, 2, 3, 400, 800, 2000}

InitResize == \E w \in ResizeWidths, h \in ResizeHeights : FnCall(<<w, h>>)

\* _resize_image applied to the image and, when it returned, to what it returned
ApplyResize ==
    LET once == ResizeImage(fnIn[1], fnIn[2])
    IN  FnReturn([once |-> once,
                  twice |-> IF once.ok THEN ResizeImage(once.w, once.h) ELSE once])

SpecResize == InitResize /\ [][ApplyResize]_vars

(***************************************************************************)
(* Properties                                                              *)
(***************************************************************************)
Levels == {"HIGH", "MEDIUM", "LOW", "VERY_LOW"}

Returned == pc = "returned"

\* the shape every OCRProcessingResult has
WellFormed(res) ==
    /\ res.returned
    /\ res.confidence_score \in 0..10000
    /\ res.confidence_level \in Levels
    /\ DOMAIN res.fields = FieldNames
    /\ res.regions_processed = Len(res.raw_text_regions)
    /\ Len(res.region_confidences) = Len(res.raw_text_regions)

AllFieldsNull(res) == \A f \in FieldNames : res.fields[f] = Null

SomeRegionFailed == \E k \in DOMAIN ocrLog : ocrLog[k].failed

SomeRecognizerRaised == \E k \in DOMAIN ocrLog : ocrLog[k].raised

\* the task awaiting process_image_url was cancelled by its caller, which is
\* no input of the call and no failure inside it
Cancelled == result = Escaped("CancelledError")

\* C1: process_image, process_image_url and process_image_path never raise
\* to the caller: whatever the input and whatever fails inside, no exception
\* leaves a call that its caller did not cancel, the call has a next step
\* until it has returned, and what it returns is an OCRProcessingResult.
C1_NeverRaises ==
    /\ pc = "raised" => Cancelled
    /\ Returned => WellFormed(result)
    /\ (~Returned /\ pc # "raised") => ENABLED Next

\* C2: bytes that cannot be decoded, for any category, give a result with
\* error set, confidence_score 0, confidence_level VERY_LOW, all eleven
\* compliance fields null and no text regions, and none of the detection,
\* recognition and extraction steps ran.
C2_DecodeFailureIsTerminal ==
    (Returned /\ decoded \in {"none", "raised"}) =>
        /\ result.error # "none"
        /\ result.confidence_score = 0
        /\ result.confidence_level = "VERY_LOW"
        /\ AllFieldsNull(result)
        /\ result.raw_text_regions = <<>>
        /\ steps = {}
        /\ ocrLog = <<>>

\* undecodable bytes given with the category food
C2_Witness ==
    /\ Returned
    /\ decoded = "none"
    /\ category = "food"
    /\ result.error = "Failed to decode image"

\* detect_text_regions returned an empty list (both strategies found nothing)
DetectedNothing == pc \in {"ocr", "returned"} /\ usedMser /\ detected = <<>>

\* C3: when detect_text_regions returns no box for a decodable W x H image,
\* process_image recognizes exactly one region, (0, 0, W, H), and returns a
\* well-formed result with error null and total_regions_detected = 1.
C3_WholeImageFallback ==
    DetectedNothing =>
        /\ boxes = <<BoundingBox(0, 0, img[1], img[2])>>
        /\ Returned =>
            /\ Len(ocrLog) = 1
            /\ ~ocrLog[1].failed
            /\ WellFormed(result)
            /\ result.error = "none"
            /\ result.total_regions_detected = 1
            /\ result.image_dimensions = img

\* a 600 x 400 image without any box, whose whole-image region was recognized
C3_Witness ==
    /\ Returned
    /\ DetectedNothing
    /\ img = <<600, 400>>
    /\ Len(result.raw_text_regions) = 1
    /\ result.raw_text_regions[1].width = 600

\* C4: in every returned result, error results included, needs_review is true
\* exactly when confidence_level is LOW or VERY_LOW.
C4_NeedsReviewIffLow ==
    Returned => (result.needs_review <=> result.confidence_level \in {"LOW", "VERY_LOW"})

\* C5: for a decodable image a failure while one detected region is cropped,
\* preprocessed or recognized leaves error null; the region is only dropped.
C5_RegionFailureOnlyDrops ==
    (Returned /\ decoded = "image" /\ SomeRegionFailed) => result.error = "none"

\* C6: when the recognizer raises for a region, that region is dropped, every
\* other region is still handled, and the result has error null.
C6_RecognizerFailureIsLocal ==
    (Returned /\ SomeRecognizerRaised) =>
        /\ result.error = "none"
        /\ Len(ocrLog) = Len(boxes)
        /\ \A k \in DOMAIN ocrLog :
              ocrLog[k].raised =>
                 \A j \in DOMAIN result.raw_text_regions :
                     result.raw_text_regions[j].region_index # ocrLog[k].index

\* a box lies inside the image and has positive width and height
InsideImage(b, width, height) ==
    /\ b.width > 0
    /\ b.height > 0
    /\ b.x >= 0
    /\ b.y >= 0
    /\ b.x + b.width <= width
    /\ b.y + b.height <= height

\* C7: every box the primary strategy appends, after padding and clipping, has
\* positive width and height and lies inside the source image.
C7_PrimaryBoxesInsideImage ==
    \A k \in DOMAIN primary : InsideImage(primary[k], img[1], img[2])

\* C8: the list returned by _merge_overlapping_boxes holds no two distinct
\* boxes whose intersection exceeds half the area of the smaller one.
C8_NoOverlapAfterMerge ==
    fpc = "done" =>
        \A i, j \in DOMAIN boxesOut :
            i # j => ~Overlaps(Rect(boxesOut[i]), Rect(boxesOut[j]))

\* C9 as stated: the vertical centre of each row's anchor is at least the
\* vertical centre of the anchor of the row before it.
C9_AnchorCentresNonDecreasing ==
    fpc = "done" =>
        \A k \in 1..(Len(rowsOut) - 1) : CenterY(rowsOut[k + 1][1]) >= CenterY(rowsOut[k][1])

\* C9, amended: the rows of _sort_bounding_boxes appear in non-decreasing order
\* of the top edge of their anchor boxes (the key the boxes are ordered by
\* before they are clustered), and the output is the rows, each sorted by x,
\* one after the other.
C9_AnchorTopsNonDecreasing ==
    fpc = "done" =>
        /\ \A k \in 1..(Len(rowsOut) - 1) : rowsOut[k + 1][1].y >= rowsOut[k][1].y
        /\ boxesOut = Flatten([k \in 1..Len(rowsOut) |-> SortByX(rowsOut[k])])

\* two rows whose anchor centres decrease while their top edges do not decrease
C9_Witness ==
    /\ fpc = "done"
    /\ Len(rowsOut) = 2
    /\ CenterY(rowsOut[2][1]) < CenterY(rowsOut[1][1])
    /\ rowsOut[2][1].y >= rowsOut[1][1].y

\* first position of row k in the concatenation of the rows
RECURSIVE RowStart(_, _)
RowStart(rows, k) == IF k = 1 THEN 1 ELSE RowStart(rows, k - 1) + Len(rows[k - 1])

\* C10: in the output of _sort_bounding_boxes x is non-decreasing within each
\* row, and the vertical centre of every box of a row is less than half the
\* mean box height away from the vertical centre of the row's anchor.
C10_RowsAreTight ==
    (pc \in {"ocr", "returned"} /\ detected # <<>>) =>
        \A k \in DOMAIN detectedRows :
            LET row == detectedRows[k]
                first == RowStart(detectedRows, k)
            IN  /\ \A i \in 1..(Len(row) - 1) :
                      detected[first + i - 1].x <= detected[first + i].x
                /\ \A i \in DOMAIN row :
                      2 * Len(detected) * Abs(CenterY(row[i]) - CenterY(row[1]))
                          < SumHeights(detected)

(***************************************************************************)
(* Concurrent calls of process_image on one instance                       *)
(***************************************************************************)
NumCalls == 2         \* calls running concurrently
MaxCallRegions == 2   \* text regions of the image a call is given

\* what the recognizer reads in one text region of an image
RegionWords == {<<>>, <<[text |-> "fresh", conf |-> 60]>>, <<[text |-> "12/2025", conf |-> 100]>>}

\* what a call is given: a category and a 1200 x 800 image with one or two
\* text regions
CallInputs ==
    {[category |-> cat, regions |-> rs] :
        cat \in {"food", "generic"},
        rs \in SeqsUpTo(RegionWords, MaxCallRegions) \ {<<>>}}

\* the local variables of process_image before its first statement
NewLocals == [boxes |-> <<>>, idx |-> 0, regions |-> <<>>, fields |-> NoFields, failed |-> FALSE]

\* a call that has not run yet; instance is the state of the service and of
\* the pytesseract module the call found when it began
NewCall(input) ==
    [pc |-> "start", input |-> input, instance |-> Unconstructed, locals |-> NewLocals,
     result |-> NoResult]

\* the working variables kept in one place for all calls, as attributes of
\* the instance would be
FrameOfFirst(i) == 1

\* where the local variables of call i live: bounding_boxes, text_regions,
\* combined_text and fields are locals of process_image and of the methods
\* it calls, so every call has its own
FrameOf(i) == i

Locals(i) == calls[FrameOf(i)].locals

\* the words in the crop of box k of the image
WordsAt(input, k) == IF k \in DOMAIN input.regions THEN input.regions[k] ELSE <<>>

\* image_to_data on a region: the words of the image when the command runs,
\* an exception when it does not
RecognizeWith(cmd, words) ==
    IF Runnable(cmd) THEN [raised |-> FALSE, words |-> words]
    ELSE [raised |-> TRUE, words |-> <<>>]

\* extract_compliance_fields looks its patterns up in self.patterns
ExtractWith(patterns, text, cat) ==
    IF PatternNames \subseteq patterns
    THEN [failed |-> FALSE, fields |-> ExtractComplianceFields(text, cat)]
    ELSE [failed |-> TRUE, fields |-> NoFields]

\* the instance and module state after a step of process_image: the method
\* assigns no attribute of self and no module global
SharedAfterStep(sh) == sh

\* the result process_image builds of its locals
ResultOf(l, input) ==
    IF l.failed THEN ErrorResult("KeyError")
    ELSE [SuccessResult(l.regions, l.boxes, input.category, <<1200, 800>>)
             EXCEPT !.fields = l.fields]

\* the result of the call when it runs alone, from its first statement to
\* its return, on the constructed instance sh
SoloResult(sh, input) ==
    SuccessResult(PerformRegionWiseOcr(
                      OcrBoxes(Len(input.regions)),
                      [k \in DOMAIN input.regions |->
                          RecognizeWith(sh.tesseract_cmd, input.regions[k])],
                      1200, 800, 0),
                  OcrBoxes(Len(input.regions)), input.category, <<1200, 800>>)

InitConcurrent ==
    /\ PipelineIdle
    /\ fpc = "off"
    /\ boxesIn = <<>>
    /\ boxesOut = <<>>
    /\ rowsOut = <<>>
    /\ fnIn = <<>>
    /\ fnOut = <<>>
    /\ shared = Unconstructed
    /\ \E ins \in [1..NumCalls -> CallInputs] :
          calls = [i \in 1..NumCalls |-> NewCall(ins[i])]
    /\ SvcIdle

\* OCRService(): main.py constructs it, directly and inside the other
\* services, before it asks for the AdvancedOCRService
ConstructOcrService ==
    /\ shared.patterns = {}
    /\ \E setting \in Settings, found \in BOOLEAN :
          shared' = OcrServiceInit(shared, setting, found)
    /\ UNCHANGED <<pipeVars, fpc, boxesIn, boxesOut, rowsOut, fnIn, fnOut, calls, svcVars>>

\* AdvancedOCRService(): _configure_tesseract and _compile_regex_patterns
Construct ==
    /\ shared.patterns = {}
    /\ \E found \in BOOLEAN : shared' = AdvancedInit(shared, found)
    /\ UNCHANGED <<pipeVars, fpc, boxesIn, boxesOut, rowsOut, fnIn, fnOut, calls, svcVars>>

\* call i takes a step that leaves its local variables as l and the call
\* at position p
CallStep(i, p, l) ==
    /\ shared \in Constructed
    /\ calls' = [calls EXCEPT ![FrameOf(i)].locals = l, ![i].pc = p,
                              ![i].instance = IF calls[i].pc = "start" THEN shared ELSE @,
                              ![i].result = IF p = "returned" THEN ResultOf(l, calls[i].input)
                                            ELSE @]
    /\ shared' = SharedAfterStep(shared)
    /\ UNCHANGED <<pipeVars, fpc, boxesIn, boxesOut, rowsOut, fnIn, fnOut, svcVars>>

\* step 1 and the start of step 2 of call i: detect_text_regions returns the
\* boxes of the image and perform_region_wise_ocr starts with no region
CallDetect(i) ==
    /\ calls[i].pc = "start"
    /\ CallStep(i, "ocr", [Locals(i) EXCEPT !.boxes = OcrBoxes(Len(calls[i].input.regions)),
                                            !.idx = 0, !.regions = <<>>])

\* one iteration of the loop of perform_region_wise_ocr in call i
RecognizeNext(l, r) ==
    [l EXCEPT !.idx = @ + 1,
              !.regions = IF ReportsRegion(r) THEN Append(@, TextRegion(l.boxes[l.idx + 1], r, l.idx))
                          ELSE @]
CallRecognize(i) ==
    /\ calls[i].pc = "ocr"
    /\ Locals(i).idx < Len(Locals(i).boxes)
    /\ CallStep(i, "ocr",
                RecognizeNext(Locals(i),
                              ExtractTextFromRegion(
                                  Locals(i).boxes[Locals(i).idx + 1], 1200, 800,
                                  RecognizeWith(shared.tesseract_cmd,
                                                WordsAt(calls[i].input, Locals(i).idx + 1)))))

\* steps 3 and 4 of call i: the combined text and the compliance fields
ExtractInto(l, e) == [l EXCEPT !.fields = e.fields, !.failed = e.failed]
CallExtract(i) ==
    /\ calls[i].pc = "ocr"
    /\ Locals(i).idx >= Len(Locals(i).boxes)
    /\ CallStep(i, "extracted",
                ExtractInto(Locals(i),
                            ExtractWith(shared.patterns, JoinTexts(Locals(i).regions),
                                        calls[i].input.category)))

\* step 5 of call i and its return
CallReturn(i) ==
    /\ calls[i].pc = "extracted"
    /\ CallStep(i, "returned", Locals(i))

NextConcurrent ==
    \/ ConstructOcrService
    \/ Construct
    \/ \E i \in 1..NumCalls : CallDetect(i)
    \/ \E i \in 1..NumCalls : CallRecognize(i)
    \/ \E i \in 1..NumCalls : CallExtract(i)
    \/ \E i \in 1..NumCalls : CallReturn(i)

SpecConcurrent == InitConcurrent /\ [][NextConcurrent]_vars

(***************************************************************************)
(* Step 5 of process_image applied on its own: the metrics and the score   *)
(* and level reported, for regions of one word and of 10 or 11 words       *)
(***************************************************************************)
\* <<sum of the word confidences, number of words>> of a region; every word
\* has an integer confidence in 60..100
ScoreRegions ==
    {<<60, 1>>, <<70, 1>>, <<85, 1>>, <<100, 1>>,
     <<600, 10>>, <<849, 10>>, <<850, 10>>, <<935, 11>>, <<936, 11>>}

\* the TextRegion perform_region_wise_ocr builds for such a region
RegionOf(c, index) ==
    TextRegion(BoundingBox(0, 0, 10, 10),
               [text |-> [k \in 1..c[2] |-> "fresh"], confSum |-> c[1], confN |-> c[2]], index)

InitScore ==
    \E cs \in SeqsUpTo(ScoreRegions, MaxRegions) :
        FnCall([k \in 1..Len(cs) |-> RegionOf(cs[k], k - 1)])

\* confidence_score=round(confidence, 4), confidence_level=level
ApplyScore ==
    LET m == CalculateConfidenceMetrics(fnIn)
    IN  FnReturn([overall |-> m.overall,
                  confidence_score |-> Round4(m.overall),
                  confidence_level |-> m.level])

SpecScore == InitScore /\ [][ApplyScore]_vars

(***************************************************************************)
(* The contour strategy of detect_text_regions applied on its own          *)
(***************************************************************************)
\* detect_text_regions(image) up to the end of the contour loop, for an image
\* of the given size whose detection copy has the given contour rectangles
InitDetect ==
    \E d \in ImageSizes :
        LET grid == Preprocess(d[1], d[2])
        IN  IF grid.ok
            THEN \E cs \in SeqsUpTo(RectsIn(grid.w, grid.h), MaxContours) :
                     FnCall([size |-> d, contours |-> cs])
            ELSE FnCall([size |-> d, contours |-> <<>>])

\* the size of the copy the contours are found on, and the boxes appended
ApplyDetect ==
    LET grid == Preprocess(fnIn.size[1], fnIn.size[2])
    IN  IF grid.ok
        THEN FnReturn([ok |-> TRUE, grid |-> <<grid.w, grid.h>>,
                       boxes |-> PrimaryBoxes(fnIn.contours, fnIn.size[1], fnIn.size[2])])
        ELSE FnReturn([ok |-> FALSE, grid |-> <<0, 0>>, boxes |-> <<>>])

SpecDetect == InitDetect /\ [][ApplyDetect]_vars

(***************************************************************************)
(* The MRP pattern and the mrp field, on texts spelled character by        *)
(* character (the keyword MRP and the abbreviation Rs are single symbols)  *)
(***************************************************************************)
MaxChars == 5   \* symbols of a text given to the MRP pattern

MrpDigits == {"1", "5"}

MrpChars == {"MRP", "₹", "Rs", ",", ".", " ", "g"} \cup MrpDigits

\* [\s:₹.]  [₹Rs.] (case-insensitive)  \s  [0-9,]
PrefixClassA == {" ", "₹", "."}
PrefixClassB == {"₹", "Rs", "."}
SpaceClass == {" "}
NumberClass == MrpDigits \cup {","}

\* the first position at or after i whose symbol is outside S (greedy star)
RECURSIVE SkipWhile(_, _, _)
SkipWhile(t, i, S) ==
    IF i > Len(t) THEN i
    ELSE IF t[i] \in S THEN SkipWhile(t, i + 1, S)
    ELSE i

\* ([0-9,]+(?:\.[0-9]{1,2})?) tried at position c: the position after the
\* group, or 0 when the group does not match there
NumberEnd(t, c) ==
    LET e == SkipWhile(t, c, NumberClass)
    IN  IF e = c THEN 0
        ELSE IF e + 1 <= Len(t) /\ t[e] = "." /\ t[e + 1] \in MrpDigits
             THEN IF e + 2 <= Len(t) /\ t[e + 2] \in MrpDigits THEN e + 3 ELSE e + 2
             ELSE e

\* the text the group captures when it is tried at c (<<>>: no match)
GroupAt(t, c) ==
    LET e == NumberEnd(t, c)
    IN  IF e = 0 THEN <<>> ELSE SubSeq(t, c, e - 1)

\* the three alternatives of the pattern tried at position i
MrpMatchAt(t, i) ==
    IF t[i] = "MRP"
    THEN GroupAt(t, SkipWhile(t, SkipWhile(t, SkipWhile(t, i + 1, PrefixClassA),
                                           PrefixClassB), SpaceClass))
    ELSE IF t[i] = "₹"
    THEN GroupAt(t, SkipWhile(t, i + 1, SpaceClass))
    ELSE IF t[i] = "Rs"
    THEN LET afterDot == IF i + 1 <= Len(t) /\ t[i + 1] = "." THEN i + 2 ELSE i + 1
         IN  GroupAt(t, SkipWhile(t, afterDot, SpaceClass))
    ELSE <<>>

\* self.patterns['mrp'].search(full_text): the leftmost match
RECURSIVE MrpSearch(_, _)
MrpSearch(t, i) ==
    IF i > Len(t) THEN <<>>
    ELSE IF MrpMatchAt(t, i) # <<>> THEN MrpMatchAt(t, i)
    ELSE MrpSearch(t, i + 1)

\* mrp_value.replace(',', '')
RemoveCommas(g) == SelectSeq(g, LAMBDA c : c # ",")

\* fields.mrp: None, or the currency prefix followed by the captured text
\* without its commas
MrpField(t) ==
    LET g == MrpSearch(t, 1)
    IN  IF g = <<>> THEN [found |-> FALSE, value |-> <<>>]
        ELSE [found |-> TRUE, value |-> <<"₹">> \o RemoveCommas(g)]

InitMrp == \E t \in SeqsUpTo(MrpChars, MaxChars) : FnCall(t)

ApplyMrp == FnReturn(MrpField(fnIn))

SpecMrp == InitMrp /\ [][ApplyMrp]_vars

(***************************************************************************)
(* CategoryAuditService.bulk_audit_urls (category_audit_service.py)        *)
(* The callers in this repository pass no progress_callback.               *)
(***************************************************************************)
MaxUrls == 6       \* submitted URLs
PoolWorkers == 5   \* max_workers: the default, and what main.py passes

Urls == {"u1", "u2"}

\* whether URLAuditService.audit returns or raises for a submitted url
Fates == {"ok", "raises"}

\* the urls of the list: two urls in turn, so that a list of three or more
\* holds a url more than once
UrlAt(i) == IF i % 2 = 1 THEN "u1" ELSE "u2"

\* BulkAuditProgress(total=len(urls), completed=0, failed=0, in_progress=True, ...)
NewProgress(n) ==
    [total |-> n, completed |-> 0, failed |-> 0, in_progress |-> TRUE,
     results |-> <<>>, errors |-> <<>>]

\* an audit_single_url that swallows the failure: (None, None)
AuditSingleUrlSilent(task) ==
    IF task.fate = "ok" THEN [result |-> task.url, error |-> "none"]
    ELSE [result |-> "none", error |-> "none"]

\* audit_single_url: (result, None), or (None, message) when audit raised
AuditSingleUrl(task) ==
    IF task.fate = "ok" THEN [result |-> task.url, error |-> "none"]
    ELSE [result |-> "none", error |-> "Failed to audit " \o task.url]

\* the body of the as_completed loop for one future
CollectOutcome(p, out) ==
    IF out.result # "none"
    THEN [p EXCEPT !.results = Append(@, out.result), !.completed = @ + 1]
    ELSE IF out.error # "none"
         THEN [p EXCEPT !.failed = @ + 1, !.errors = Append(@, out.error)]
         ELSE [p EXCEPT !.failed = @ + 1]

\* the futures whose work item a worker thread holds: taken from the queue
\* and not yet finished
Busy == {i \in DOMAIN futures : futures[i].held /\ futures[i].state # "done"}

InitBulk ==
    /\ PipelineIdle
    /\ fpc = "off"
    /\ boxesIn = <<>>
    /\ boxesOut = <<>>
    /\ rowsOut = <<>>
    /\ fnIn = <<>>
    /\ fnOut = <<>>
    /\ shared \in Constructed
    /\ calls = <<>>
    /\ SingletonIdle
    /\ TaskIdle
    /\ bpc = "start"
    /\ \E n \in 0..MaxUrls : \E fates \in [1..n -> Fates] :
          /\ futures = [i \in 1..n |->
                          [task |-> [url |-> UrlAt(i), fate |-> fates[i]], state |-> "unsubmitted", held |-> FALSE,
                           outcome |-> <<>>, collected |-> FALSE]]
          /\ progress = NewProgress(n)

\* `if not urls`: in_progress = False and the empty progress is returned
ReturnEmpty ==
    /\ bpc = "start"
    /\ futures = <<>>
    /\ progress' = [progress EXCEPT !.in_progress = FALSE]
    /\ bpc' = "returned"
    /\ UNCHANGED <<pipeVars, pureVars, singletonVars, taskVars, futures>>

\* one executor.submit of the dict comprehension: the urls are submitted in
\* list order, and the pool's workers run between two submissions
Submit(i) ==
    /\ bpc = "start"
    /\ i \in DOMAIN futures
    /\ futures[i].state = "unsubmitted"
    /\ \A j \in 1..(i - 1) : futures[j].state # "unsubmitted"
    /\ futures' = [futures EXCEPT ![i].state = "pending"]
    /\ UNCHANGED <<pipeVars, pureVars, singletonVars, taskVars, bpc, progress>>

\* every url was submitted: the as_completed loop starts
StartCollecting ==
    /\ bpc = "start"
    /\ futures # <<>>
    /\ \A i \in DOMAIN futures : futures[i].state # "unsubmitted"
    /\ bpc' = "collecting"
    /\ UNCHANGED <<pipeVars, pureVars, singletonVars, taskVars, futures, progress>>

\* work_queue.get() in a worker thread: a thread that holds no work item
\* (the pool has at most max_workers threads) takes the oldest item of the
\* queue; its future stays PENDING
WorkerTake(i) ==
    /\ i \in DOMAIN futures
    /\ futures[i].state = "pending"
    /\ ~futures[i].held
    /\ \A j \in 1..(i - 1) : futures[j].held
    /\ Cardinality(Busy) < PoolWorkers
    /\ futures' = [futures EXCEPT ![i].held = TRUE]
    /\ UNCHANGED <<pipeVars, pureVars, singletonVars, taskVars, bpc, progress>>

\* work_item.run(): set_running_or_notify_cancel makes the future RUNNING
\* and audit_single_url is entered, whatever the threads holding older
\* items have done so far
WorkerStart(i) ==
    /\ i \in DOMAIN futures
    /\ futures[i].state = "pending"
    /\ futures[i].held
    /\ futures' = [futures EXCEPT ![i].state = "running"]
    /\ UNCHANGED <<pipeVars, pureVars, singletonVars, taskVars, bpc, progress>>

\* the worker's audit_single_url returns and the future is done
WorkerFinish(i) ==
    /\ i \in DOMAIN futures
    /\ futures[i].state = "running"
    /\ futures' = [futures EXCEPT ![i].state = "done",
                                  ![i].outcome = AuditSingleUrl(futures[i].task)]
    /\ UNCHANGED <<pipeVars, pureVars, singletonVars, taskVars, bpc, progress>>

\* as_completed yields a finished future not yet yielded
Collect(i) ==
    /\ bpc = "collecting"
    /\ i \in DOMAIN futures
    /\ futures[i].state = "done"
    /\ ~futures[i].collected
    /\ futures' = [futures EXCEPT ![i].collected = TRUE]
    /\ progress' = CollectOutcome(progress, futures[i].outcome)
    /\ UNCHANGED <<pipeVars, pureVars, singletonVars, taskVars, bpc>>

\* the loop and the `with` block end when every future was yielded
BulkReturn ==
    /\ bpc = "collecting"
    /\ \A i \in DOMAIN futures : futures[i].collected
    /\ progress' = [progress EXCEPT !.in_progress = FALSE]
    /\ bpc' = "returned"
    /\ UNCHANGED <<pipeVars, pureVars, singletonVars, taskVars, futures>>

NextBulk ==
    \/ ReturnEmpty
    \/ \E i \in 1..MaxUrls : Submit(i)
    \/ StartCollecting
    \/ \E i \in 1..MaxUrls : WorkerTake(i)
    \/ \E i \in 1..MaxUrls : WorkerStart(i)
    \/ \E i \in 1..MaxUrls : WorkerFinish(i)
    \/ \E i \in 1..MaxUrls : Collect(i)
    \/ BulkReturn

SpecBulk == InitBulk /\ [][NextBulk]_vars

(***************************************************************************)
(* get_advanced_ocr_service called from several threads                    *)
(* Instances are numbered in the order of their construction.  A thread    *)
(* switch can fall between any two of: the test of the global, the         *)
(* construction, the store to the global, and the load for the return.     *)
(***************************************************************************)
NumThreads == 3   \* threads making their first call

InitSingleton ==
    /\ PipelineIdle
    /\ fpc = "off"
    /\ boxesIn = <<>>
    /\ boxesOut = <<>>
    /\ rowsOut = <<>>
    /\ fnIn = <<>>
    /\ fnOut = <<>>
    /\ \E setting \in Settings, found \in BOOLEAN :
          shared = OcrServiceInit(Unconstructed, setting, found)
    /\ calls = <<>>
    /\ BulkIdle
    /\ TaskIdle
    /\ singleton = 0
    /\ built = 0
    /\ threads = [t \in 1..NumThreads |-> [pc |-> "test", made |-> 0, ret |-> 0]]

\* thread t takes the step that leaves it in state th
ThreadStep(t, th) ==
    /\ threads' = [threads EXCEPT ![t] = th]
    /\ UNCHANGED <<pipeVars, fpc, boxesIn, boxesOut, rowsOut, fnIn, fnOut, calls,
                   bulkVars, taskVars>>

\* if _advanced_ocr_service is None
TestGlobal(t) ==
    /\ threads[t].pc = "test"
    /\ ThreadStep(t, [threads[t] EXCEPT
                         !.pc = IF singleton = 0 THEN "construct" ELSE "return"])
    /\ UNCHANGED <<singleton, built, shared>>

\* AdvancedOCRService()
ConstructInstance(t) ==
    /\ threads[t].pc = "construct"
    /\ built' = built + 1
    /\ \E found \in BOOLEAN : shared' = AdvancedInit(shared, found)
    /\ ThreadStep(t, [threads[t] EXCEPT !.pc = "store", !.made = built + 1])
    /\ UNCHANGED singleton

\* _advanced_ocr_service = <the new instance>
StoreGlobal(t) ==
    /\ threads[t].pc = "store"
    /\ singleton' = threads[t].made
    /\ ThreadStep(t, [threads[t] EXCEPT !.pc = "return"])
    /\ UNCHANGED <<built, shared>>

\* return _advanced_ocr_service
ReturnGlobal(t) ==
    /\ threads[t].pc = "return"
    /\ ThreadStep(t, [threads[t] EXCEPT !.pc = "done", !.ret = singleton])
    /\ UNCHANGED <<singleton, built, shared>>

NextSingleton ==
    \/ \E t \in 1..NumThreads : TestGlobal(t)
    \/ \E t \in 1..NumThreads : ConstructInstance(t)
    \/ \E t \in 1..NumThreads : StoreGlobal(t)
    \/ \E t \in 1..NumThreads : ReturnGlobal(t)

SpecSingleton == InitSingleton /\ [][NextSingleton]_vars

(***************************************************************************)
(* The background category audit of main.py: run_bulk_audit runs in a      *)
(* worker thread while get_bulk_audit_status answers polls                 *)
(***************************************************************************)
MaxSaved == 2   \* results of an audit, saved one by one
MaxPolls == 3   \* status polls of the task

\* audit_by_category returns this when the category has no keywords
NoKeywordsProgress ==
    [total |-> 0, completed |-> 0, failed |-> 0,
     results |-> <<>>, errors |-> <<"No keywords found for category">>]

\* the BulkAuditProgress audit_by_category may return: the one of a category
\* without keywords, or the one bulk_audit_urls returns for the urls found
TaskProgresses ==
    {NoKeywordsProgress} \cup
    {[total |-> c + f, completed |-> c, failed |-> f,
      results |-> [k \in 1..c |-> "u1"], errors |-> [k \in 1..f |-> "Failed to audit u2"]] :
        c \in 0..MaxSaved, f \in 0..1}

\* bulk_audit_tasks[task_id] as the endpoint creates it
NewTask ==
    [status |-> "running", total |-> 0, completed |-> 0, failed |-> 0,
     results |-> <<>>, errors |-> <<>>]

\* bulk_audit_tasks[task_id].update({"status": "completed", ...})
TaskCompleted(task, p) ==
    [task EXCEPT !.status = "completed", !.total = p.total, !.completed = p.completed,
                 !.failed = p.failed, !.results = p.results, !.errors = p.errors]

\* bulk_audit_tasks[task_id].update({"status": "failed", "errors": [str(e)]})
TaskFailed(task, message) ==
    [task EXCEPT !.status = "failed", !.errors = <<message>>]

\* the endpoint has stored the entry and scheduled run_bulk_audit
InitTask ==
    /\ PipelineIdle
    /\ fpc = "off"
    /\ boxesIn = <<>>
    /\ boxesOut = <<>>
    /\ rowsOut = <<>>
    /\ fnIn = <<>>
    /\ fnOut = <<>>
    /\ shared \in Constructed
    /\ calls = <<>>
    /\ BulkIdle
    /\ SingletonIdle
    /\ tpc = "auditing"
    /\ bulk_audit_tasks = NewTask
    /\ unsaved = 0
    /\ observed = <<>>

\* audit_by_category returns and the entry is updated with its progress
AuditReturns ==
    /\ tpc = "auditing"
    /\ \E p \in TaskProgresses :
          /\ bulk_audit_tasks' = TaskCompleted(bulk_audit_tasks, p)
          /\ unsaved' = Len(p.results)
    /\ tpc' = "saving"
    /\ UNCHANGED <<pipeVars, pureVars, bulkVars, singletonVars, observed>>

\* audit_by_category (or the dump of its results) raises
AuditRaises ==
    /\ tpc = "auditing"
    /\ bulk_audit_tasks' = TaskFailed(bulk_audit_tasks, "audit error")
    /\ tpc' = "finished"
    /\ UNCHANGED <<pipeVars, pureVars, bulkVars, singletonVars, unsaved, observed>>

\* loop.run_until_complete(reporting_service.save_result(result)) returns
SaveResult ==
    /\ tpc = "saving"
    /\ unsaved > 0
    /\ unsaved' = unsaved - 1
    /\ UNCHANGED <<pipeVars, pureVars, bulkVars, singletonVars, tpc, bulk_audit_tasks, observed>>

\* saving a result raises (the database refuses the insert): the except
\* branch of run_bulk_audit runs
SaveRaises ==
    /\ tpc = "saving"
    /\ unsaved > 0
    /\ bulk_audit_tasks' = TaskFailed(bulk_audit_tasks, "save error")
    /\ tpc' = "finished"
    /\ UNCHANGED <<pipeVars, pureVars, bulkVars, singletonVars, unsaved, observed>>

\* every result is saved: loop.close() and the end of run_bulk_audit
SavesDone ==
    /\ tpc = "saving"
    /\ unsaved = 0
    /\ tpc' = "finished"
    /\ UNCHANGED <<pipeVars, pureVars, bulkVars, singletonVars, bulk_audit_tasks, unsaved,
                   observed>>

\* get_bulk_audit_status(task_id) returns the entry
Poll ==
    /\ tpc # "off"
    /\ Len(observed) < MaxPolls
    /\ observed' = Append(observed, bulk_audit_tasks.status)
    /\ UNCHANGED <<pipeVars, pureVars, bulkVars, singletonVars, tpc, bulk_audit_tasks, unsaved>>

NextTask ==
    \/ AuditReturns
    \/ AuditRaises
    \/ SaveResult
    \/ SaveRaises
    \/ SavesDone
    \/ Poll

SpecTask == InitTask /\ [][NextTask]_vars

(***************************************************************************)
(* Properties of the functions applied on their own                        *)
(***************************************************************************)
FnDone == fpc = "done"

\* the float c is at least the float p / 100
AtLeastPercent(c, p) == ~FloatLess(c, TrueDivide(p, 100))

\* C11: calculate_confidence_metrics gives the level by inclusive lower
\* bounds on the overall confidence c alone: HIGH exactly when c >= 0.85,
\* MEDIUM exactly when 0.70 <= c < 0.85, LOW exactly when 0.50 <= c < 0.70,
\* VERY_LOW exactly when c < 0.50.
C11_LevelByInclusiveBounds ==
    FnDone =>
        LET c == fnOut.overall
            level == fnOut.level
        IN  /\ level \in Levels
            /\ level = "HIGH" <=> AtLeastPercent(c, 85)
            /\ level = "MEDIUM" <=> (AtLeastPercent(c, 70) /\ ~AtLeastPercent(c, 85))
            /\ level = "LOW" <=> (AtLeastPercent(c, 50) /\ ~AtLeastPercent(c, 70))
            /\ level = "VERY_LOW" <=> ~AtLeastPercent(c, 50)

\* two regions whose mean is exactly 0.85 (0.70 and 1.00), graded HIGH
C11_Witness ==
    /\ FnDone
    /\ Len(fnIn) = 2
    /\ fnIn[1].confSum = 70
    /\ fnIn[2].confSum = 100
    /\ fnOut.overall = TrueDivide(85, 100)
    /\ fnOut.level = "HIGH"

\* the float x as a multiple of 2^(-ExactExp), for x >= 2^(-MantissaBits)
ExactExp == 2 * MantissaBits
Exact(x) ==
    IF x = Zero THEN <<>> ELSE ShiftLeft(x.m, x.e - (MantissaBits - 1) + ExactExp)

\* the sum of the floats cs, without rounding
RECURSIVE ExactSum(_)
ExactSum(cs) == IF cs = <<>> THEN <<>> ELSE BigAdd(Exact(Head(cs)), ExactSum(Tail(cs)))

\* the float nearest to the arithmetic mean of the floats cs
NearestToMean(cs) == ScaledDivide(ExactSum(cs), Len(cs), 0 - ExactExp, BitLength(Len(cs)) + 3)

\* C12: for word confidences in 0..100 every reported TextRegion has a
\* confidence in [0,1]; the overall confidence calculate_confidence_metrics
\* computes is the arithmetic mean of the reported regions' confidences (the
\* float that represents it; 0 without regions), and the confidence_score
\* process_image reports is that value to four decimal places.
C12_ConfidenceIsMeanOfRegions ==
    FnDone =>
        LET rs == fnOut.result.raw_text_regions
            cs == fnOut.result.region_confidences
            c == fnOut.metrics.overall
            score == fnOut.result.confidence_score
        IN  /\ Len(cs) = Len(rs)
            /\ \A k \in DOMAIN rs :
                  /\ cs[k] = RegionConfidence(rs[k])
                  /\ ~FloatLess(TrueDivide(1, 1), cs[k])
            /\ rs = <<>> => (c = Zero /\ score = 0)
            /\ rs # <<>> => c = NearestToMean(cs)
            /\ score = Round4(c)

\* C13: extract_compliance_fields populates fssai_license only for category
\* food or None and bis_certification only for category electronics or None;
\* for electronics fssai_license is null even when the text holds a 14-digit
\* number, and for cosmetics and generic both are null.
C13_CategoryGating ==
    FnDone =>
        /\ fnOut["fssai_license"] # Null => fnIn.category \in {"food", "none"}
        /\ fnOut["bis_certification"] # Null => fnIn.category \in {"electronics", "none"}
        /\ fnIn.category = "electronics" => fnOut["fssai_license"] = Null
        /\ fnIn.category \in {"cosmetics", "generic"} =>
              (fnOut["fssai_license"] = Null /\ fnOut["bis_certification"] = Null)

\* category electronics, a text with a BIS code and a 14-digit number: the
\* certification is populated, the license is not
C13_Witness ==
    /\ FnDone
    /\ fnIn.category = "electronics"
    /\ fnIn.text = <<"BIS", "12345678901234">>
    /\ fnOut["fssai_license"] = Null
    /\ fnOut["bis_certification"] = "12345678901234"

\* C14: when neither explicit date pattern matches and the generic scan finds
\* exactly one date d, expiry_date = d and manufacture_date = null for category
\* food; manufacture_date = d and expiry_date = null for every other category,
\* None included.
C14_SingleGenericDate ==
    (/\ FnDone
     /\ MfgDateMatch(fnIn.text) = Null
     /\ ExpDateMatch(fnIn.text) = Null
     /\ Len(DateMatches(fnIn.text)) = 1) =>
        IF fnIn.category = "food"
        THEN /\ fnOut["expiry_date"] = DateMatches(fnIn.text)[1]
             /\ fnOut["manufacture_date"] = Null
        ELSE /\ fnOut["manufacture_date"] = DateMatches(fnIn.text)[1]
             /\ fnOut["expiry_date"] = Null

\* category food and the text "12/2025": the date is the expiry date
C14_Witness ==
    /\ FnDone
    /\ fnIn.category = "food"
    /\ fnIn.text = <<"12/2025">>
    /\ fnOut["expiry_date"] = "12/2025"
    /\ fnOut["manufacture_date"] = Null

\* C15: with no explicit date match and at least two generic dates, the first
\* is the manufacture date and the second the expiry date; with exactly one of
\* the explicit patterns matched, the other date field stays null however many
\* generic dates the text holds.
C15_GenericDatesOnlyWithoutExplicit ==
    FnDone =>
        LET mfg == MfgDateMatch(fnIn.text)
            exp == ExpDateMatch(fnIn.text)
            dates == DateMatches(fnIn.text)
        IN  /\ (mfg = Null /\ exp = Null /\ Len(dates) >= 2) =>
                  /\ fnOut["manufacture_date"] = dates[1]
                  /\ fnOut["expiry_date"] = dates[2]
            /\ (mfg # Null /\ exp = Null) =>
                  /\ fnOut["manufacture_date"] = mfg
                  /\ fnOut["expiry_date"] = Null
            /\ (mfg = Null /\ exp # Null) =>
                  /\ fnOut["expiry_date"] = exp
                  /\ fnOut["manufacture_date"] = Null

\* an expiry label with its date and one more date: the manufacture date
\* stays null although the generic scan would find two dates
C15_Witness ==
    /\ FnDone
    /\ fnIn.text = <<"Exp", "12/2025", "01/2024">>
    /\ Len(DateMatches(fnIn.text)) = 2
    /\ fnOut["expiry_date"] = "12/2025"
    /\ fnOut["manufacture_date"] = Null

(***************************************************************************)
(* Further properties of the call                                          *)
(***************************************************************************)
\* the region of box index is among the reported regions
Reported(rs, index) == \E k \in DOMAIN rs : rs[k].region_index = index

\* C16: a region whose recognition leaves no surviving word is not reported:
\* every TextRegion collected and returned has a non-empty text, a handled
\* region is reported exactly when a word of it survived, and combined_text
\* is the texts of the reported regions, in list order, joined.
C16_EmptyRegionsNotReported ==
    /\ \A k \in DOMAIN regions : regions[k].text # <<>>
    /\ (Returned /\ result.error = "none") =>
          /\ result.raw_text_regions = regions
          /\ result.combined_text =
                Flatten([k \in 1..Len(regions) |-> regions[k].text])
          /\ \A j \in DOMAIN ocrLog :
                Reported(result.raw_text_regions, ocrLog[j].index) <=> ocrLog[j].kept > 0

\* two regions: the recognizer reported words for the first, none of which
\* survived, and two surviving words for the second, the only one reported
C16_Witness ==
    /\ Returned
    /\ result.error = "none"
    /\ Len(ocrLog) = 2
    /\ ~ocrLog[1].raised
    /\ ocrLog[1].kept = 0
    /\ ocrLog[2].kept = 2
    /\ Len(result.raw_text_regions) = 1
    /\ result.raw_text_regions[1].region_index = 1
    /\ result.combined_text = <<"fresh", "12/2025">>

\* the url or path wrapper could not get the image bytes
AcquisitionFailed ==
    acquired \in {"http_404", "timeout", "client_error", "not_found", "os_error",
                  "value_error"}

\* C17: when process_image_url gets a status other than 200, a timeout or a
\* network exception, or process_image_path cannot find or read the file, the
\* call (one its caller does not cancel) never raises and never enters
\* process_image: it holds the error result, or an exception on its way
\* through the `async with` exits to the handler that makes it, and the
\* result has error set, confidence_score 0, confidence_level VERY_LOW, all
\* compliance fields null and no regions.
C17_AcquisitionFailureIsTerminal ==
    (AcquisitionFailed /\ ~Cancelled) =>
        /\ pc \in {"release", "close", "returned"}
        /\ decodeCalls = 0
        /\ decoded = "pending"
        /\ steps = {}
        /\ pc = "returned" => result.returned
        /\ ~result.returned =>
              /\ entry = "url"
              /\ result.exception \in {"TimeoutError", "ClientError"}
              /\ CaughtByExceptException(result.exception)
        /\ result.returned =>
              /\ result.error # "none"
              /\ result.confidence_score = 0
              /\ result.confidence_level = "VERY_LOW"
              /\ AllFieldsNull(result)
              /\ result.raw_text_regions = <<>>

\* process_image_url whose request timed out
C17_Witness ==
    /\ Returned
    /\ entry = "url"
    /\ acquired = "timeout"
    /\ decodeCalls = 0
    /\ result.error = "Failed to fetch image: TimeoutError"

\* detect_text_regions has returned to process_image
DetectionDone == pc = "ocr" \/ (Returned /\ boxes # <<>>)

\* C20: the blob strategy (with merging) runs exactly when the primary
\* strategy kept no box, and after it; boxes the primary strategy kept are
\* returned sorted and unmerged; the whole image is substituted only after
\* both strategies came back without a box.
C20_StrategiesInOrder ==
    /\ pc = "mser" => (primary = <<>> /\ ~usedMser /\ "detect" \in steps)
    /\ usedMser => primary = <<>>
    /\ DetectionDone =>
          /\ usedMser <=> primary = <<>>
          /\ primary # <<>> =>
                /\ detected = SortBoundingBoxes(primary)
                /\ Len(detected) = Len(primary)
                /\ \A k \in DOMAIN primary : \E j \in DOMAIN detected : detected[j] = primary[k]
                /\ boxes = detected
          /\ boxes # detected =>
                /\ usedMser
                /\ primary = <<>>
                /\ detected = <<>>
                /\ boxes = <<BoundingBox(0, 0, img[1], img[2])>>

\* the primary strategy kept two coinciding boxes of a 1200 x 800 image: both
\* are returned, and the blob strategy did not run
C20_Witness ==
    /\ Returned
    /\ img = <<1200, 800>>
    /\ ~usedMser
    /\ Len(primary) = 2
    /\ primary[1] = primary[2]
    /\ Len(detected) = 2
    /\ result.total_regions_detected = 2
    /\ result.error = "none"

\* C19: _resize_image returns an image of width exactly 1200 for a width
\* below 1200 and for a width above 2400, and the image itself for a width
\* from 1200 to 2400; so the width returned lies in 1200..2400 and resizing
\* what was returned changes nothing.
C19_ResizePolicy ==
    FnDone =>
        /\ fnOut.once.ok
        /\ fnIn[1] < TARGET_WIDTH => fnOut.once.w = TARGET_WIDTH
        /\ fnIn[1] > 2 * TARGET_WIDTH => fnOut.once.w = TARGET_WIDTH
        /\ (fnIn[1] >= TARGET_WIDTH /\ fnIn[1] <= 2 * TARGET_WIDTH) =>
              fnOut.once = Ok(fnIn[1], fnIn[2])
        /\ fnOut.once.w >= TARGET_WIDTH
        /\ fnOut.once.w <= 2 * TARGET_WIDTH
        /\ fnOut.twice = fnOut.once

C21_BatchResultComplete ==
    bpc = "returned" =>
        /\ ~progress.in_progress
        /\ progress.total = Len(futures)
        /\ progress.completed + progress.failed = progress.total
        /\ Len(progress.results) = progress.completed
        /\ Len(progress.errors) = progress.failed
        /\ \A u \in Urls :
              Cardinality({i \in DOMAIN progress.results : progress.results[i] = u})
                = Cardinality({i \in DOMAIN futures :
                                 futures[i].task.url = u /\ futures[i].task.fate = "ok"})

\* six URLs on five workers: the audit of the second failed, the sixth was
\* taken by the worker that became free, and the result of the url
\* submitted last was collected first, that of the first last
C21_Witness ==
    /\ bpc = "returned"
    /\ Len(futures) = MaxUrls
    /\ Len(futures) > PoolWorkers
    /\ futures[2].task.fate = "raises"
    /\ \A i \in DOMAIN futures : i # 2 => futures[i].task.fate = "ok"
    /\ progress.results = [k \in 1..(MaxUrls - 1) |->
                             UrlAt(IF k < MaxUrls - 1 THEN MaxUrls + 1 - k ELSE 1)]
    /\ progress.failed = 1

\* a non-empty run of digits with an optional decimal part of 1-2 digits
IsNumericString(v) ==
    \E n \in 1..Len(v) :
        /\ \A k \in 1..n : v[k] \in MrpDigits
        /\ \/ n = Len(v)
           \/ /\ Len(v) - n \in {2, 3}
              /\ v[n + 1] = "."
              /\ \A k \in (n + 2)..Len(v) : v[k] \in MrpDigits

\* C22: whenever mrp is populated it is the currency prefix followed by a
\* non-empty numeric string (digits, optional 1-2 digit decimal part) that
\* contains no comma.
C22_MrpIsPrefixedNumber ==
    (FnDone /\ fnOut.found) =>
        /\ Head(fnOut.value) = "₹"
        /\ IsNumericString(Tail(fnOut.value))
        /\ \A k \in DOMAIN fnOut.value : fnOut.value[k] # ","

\* C23: the service is constructed at most once and every caller of
\* get_advanced_ocr_service is returned the same instance, whatever the
\* interleaving of the first calls.
C23_OneInstanceForAll ==
    /\ built <= 1
    /\ \A t, u \in DOMAIN threads :
          (threads[t].pc = "done" /\ threads[u].pc = "done")
              => threads[t].ret = threads[u].ret

\* the contours that pass the filters, in order: one per appended box
KeptContours(cs, width, height) ==
    SelectSeq(cs, LAMBDA r : KeepContour(r, width, height))

\* box b, cropped from a width x height image, contains the part of the image
\* that the rectangle r of the gw x gh detection copy shows
CoversContour(b, r, width, height, gw, gh) ==
    /\ b.x * gw <= r[1] * width
    /\ (b.x + b.width) * gw >= (r[1] + r[3]) * width
    /\ b.y * gh <= r[2] * height
    /\ (b.y + b.height) * gh >= (r[2] + r[4]) * height

\* C24: every box of the contour strategy, read on the pixel grid of the
\* image process_image was given (the one extract_text_from_region crops),
\* covers the image content of the contour it came from, for every source
\* width.
C24_BoxesOnSourceGrid ==
    (FnDone /\ fnOut.ok) =>
        LET kept == KeptContours(fnIn.contours, fnIn.size[1], fnIn.size[2])
        IN  \A k \in DOMAIN fnOut.boxes :
                CoversContour(fnOut.boxes[k], kept[k], fnIn.size[1], fnIn.size[2],
                              fnOut.grid[1], fnOut.grid[2])

\* C25: the confidence_level reported is the level the 0.85 / 0.70 / 0.50
\* step function assigns to the confidence_score reported (the mean rounded
\* to 4 decimal places, here in ten-thousandths).
C25_LevelMatchesReportedScore ==
    FnDone => fnOut.confidence_level = LevelOf(TrueDivide(fnOut.confidence_score, 10000))

\* C26: every TextRegion reported has confidence >= 0.60; a result with at
\* least one TextRegion has confidence_score >= 0.60 and a level other than
\* VERY_LOW; VERY_LOW occurs only with zero regions or with error set.
C26_ReportedConfidenceAtLeastSixty ==
    /\ \A k \in DOMAIN regions :
          /\ regions[k].confN > 0
          /\ regions[k].confSum >= 60 * regions[k].confN
    /\ result.returned =>
          /\ (result.error = "none" /\ Len(result.raw_text_regions) >= 1) =>
                /\ result.confidence_score >= 6000
                /\ result.confidence_level # "VERY_LOW"
          /\ result.confidence_level = "VERY_LOW" =>
                (result.error # "none" \/ Len(result.raw_text_regions) = 0)

\* a result with two regions, one of them exactly at 0.60, graded above
\* VERY_LOW
C26_Witness ==
    /\ result.returned
    /\ result.error = "none"
    /\ Len(result.raw_text_regions) = 2
    /\ result.raw_text_regions[1].confSum = 60
    /\ result.raw_text_regions[1].confN = 1
    /\ result.raw_text_regions[2].confSum = 160
    /\ result.raw_text_regions[2].confN = 2
    /\ result.confidence_score = 7000
    /\ result.confidence_level = "MEDIUM"

\* C27: in a non-error result the region_index values are strictly
\* increasing in list order and lie in [0, total_regions_detected);
\* regions_processed = len(raw_text_regions) <= total_regions_detected;
\* region_confidences lists the regions' confidences in the same order;
\* low_confidence_regions <= regions_processed.
C27_ResultCountsConsistent ==
    (Returned /\ result.error = "none") =>
        LET rs == result.raw_text_regions
        IN  /\ \A k \in 1..(Len(rs) - 1) : rs[k].region_index < rs[k + 1].region_index
            /\ \A k \in DOMAIN rs :
                  /\ rs[k].region_index >= 0
                  /\ rs[k].region_index < result.total_regions_detected
            /\ result.regions_processed = Len(rs)
            /\ result.regions_processed <= result.total_regions_detected
            /\ Len(result.region_confidences) = Len(rs)
            /\ \A k \in DOMAIN rs :
                  result.region_confidences[k] = RegionConfidence(rs[k])
            /\ result.low_confidence_regions <= result.regions_processed

\* two boxes detected and both reported, the second with a confidence below
\* the low-confidence threshold
C27_Witness ==
    /\ Returned
    /\ result.error = "none"
    /\ result.total_regions_detected = 2
    /\ Len(result.raw_text_regions) = 2
    /\ result.raw_text_regions[1].region_index = 0
    /\ result.raw_text_regions[2].region_index = 1
    /\ result.region_confidences = <<TrueDivide(100, 100), TrueDivide(60, 100)>>
    /\ result.low_confidence_regions = 1

\* the number of times box b occurs in the list bs
Occurrences(bs, b) == Cardinality({k \in DOMAIN bs : bs[k] = b})

\* C28: _sort_bounding_boxes returns a permutation of its input: every box
\* occurs in the output exactly as often as in the input, none is altered,
\* and the empty list is returned unchanged.
C28_SortIsPermutation ==
    fpc = "done" =>
        /\ Len(boxesOut) = Len(boxesIn)
        /\ \A k \in DOMAIN boxesIn :
              Occurrences(boxesOut, boxesIn[k]) = Occurrences(boxesIn, boxesIn[k])
        /\ \A k \in DOMAIN boxesOut :
              Occurrences(boxesIn, boxesOut[k]) = Occurrences(boxesOut, boxesOut[k])
        /\ boxesIn = <<>> => boxesOut = <<>>

\* three boxes, two of them equal, come back in another order
C28_Witness ==
    /\ fpc = "done"
    /\ Len(boxesIn) = 3
    /\ boxesIn[1] = boxesIn[3]
    /\ boxesIn[2] # boxesIn[1]
    /\ boxesOut # boxesIn
    /\ Len(rowsOut) = 1

\* box a contains box b
ContainsBox(a, b) ==
    /\ a.x <= b.x
    /\ a.y <= b.y
    /\ a.x + a.width >= b.x + b.width
    /\ a.y + a.height >= b.y + b.height

\* box a is the smallest box containing the boxes of bs with index in S
IsBoundingUnion(a, bs, S) ==
    /\ \A k \in S : ContainsBox(a, bs[k])
    /\ \E k \in S : a.x = bs[k].x
    /\ \E k \in S : a.y = bs[k].y
    /\ \E k \in S : a.x + a.width = bs[k].x + bs[k].width
    /\ \E k \in S : a.y + a.height = bs[k].y + bs[k].height

\* C29: _merge_overlapping_boxes never loses coverage: every input box lies
\* inside some output box, every output box is the bounding union of one or
\* more input boxes and has positive width and height, and the output has no
\* more boxes than the input.
C29_MergeKeepsCoverage ==
    fpc = "done" =>
        /\ \A k \in DOMAIN boxesIn :
              \E j \in DOMAIN boxesOut : ContainsBox(boxesOut[j], boxesIn[k])
        /\ \A j \in DOMAIN boxesOut :
              /\ \E S \in SUBSET DOMAIN boxesIn :
                    S # {} /\ IsBoundingUnion(boxesOut[j], boxesIn, S)
              /\ boxesOut[j].width > 0
              /\ boxesOut[j].height > 0
        /\ Len(boxesOut) <= Len(boxesIn)

\* three boxes merged into one that is none of them
C29_Witness ==
    /\ fpc = "done"
    /\ Len(boxesIn) = 3
    /\ Len(boxesOut) = 1
    /\ \A k \in DOMAIN boxesIn : boxesOut[1] # boxesIn[k]
    /\ boxesIn[1] # boxesIn[2]
    /\ boxesIn[2] # boxesIn[3]
    /\ boxesIn[1] # boxesIn[3]

\* C30: the status of a background category audit only moves forward: it is
\* running until run_bulk_audit decides, completed or failed once it has
\* finished, and a poll that follows a poll answered completed (or failed)
\* is answered the same.
C30_StatusOnlyMovesForward ==
    /\ tpc = "auditing" => bulk_audit_tasks.status = "running"
    /\ tpc = "finished" => bulk_audit_tasks.status \in {"completed", "failed"}
    /\ \A i, j \in DOMAIN observed :
          (i < j /\ observed[i] # "running") => observed[j] = observed[i]

====
